---- MODULE Spec2Model ----
(***************************************************************************)
(* State-machine models of four parts of the qudi laboratory suite:        *)
(*   - SITimeTaggerGatedCounter (hardware/swabian_instruments)              *)
(*   - AWG7k channel activation (hardware/awg/tektronix_awg7k.py)           *)
(*   - LakeshoreLogic poll/write coordination (logic/lakeshore_magnet_logic)*)
(*   - M2LaserLogic terascan session (logic/m2_laser_logic.py) with the     *)
(*     M2ScannerGUI handlers that drive it (gui/m2_scanner/m2scanner.py)    *)
(* Each part has its own specification (SpecSetStatus, SpecGC, SpecAWG,     *)
(* SpecLS, SpecM2); the variables of the other parts stay at their initial  *)
(* values.                                                                  *)
(***************************************************************************)
EXTENDS Integers, Sequences, FiniteSets, TLC

VARIABLES
    \* ---- SITimeTaggerGatedCounter ----
    gcStatus,     \* self._status: -1 void, 0 idle, 1 in_progress, 2 finished
    gcCounter,    \* self._counter is not None
    gcBinNumber,  \* self._bin_number
    gcHwRunning,  \* the CountBetweenMarkers measurement is running
    gcHwBins,     \* gate pulses recorded by the measurement since clear()
    gcRet,        \* the last completed call: operation, arguments, result
    gcCalls,      \* number of direct _set_status calls (SpecSetStatus only)
    gcaPc,        \* get_count_array: "idle", "loop", "after", "done", "raised"
    gcaTimeout,   \* get_count_array: the timeout argument (seconds)
    gcaElapsed,   \* get_count_array: time.time() - start_time, in 1/100 s
    gcaEntry,     \* get_count_array: the status get_status() reported first
    gcaOut,       \* get_count_array: "none", "data" (count array), "empty" ([])
    \* ---- AWG7k ----
    awgChState,   \* self._ch_state_dict: the staged channel states
    awgOpt06,     \* '06' in self.installed_options (interleave option)
    awgModel,     \* self.model
    awgInterleave, \* instrument: AWGC:INT:STAT
    awgRunning,   \* instrument: AWGC:RST? is non-zero
    awgHwOut,     \* instrument: OUTPUT<n>:STATE of analog channel n
    awgHwDac,     \* instrument: SOUR<n>:DAC:RES of analog channel n
    awgSent,      \* the messages the last call sent to the instrument
    awgRet,       \* the last call: operation, branch taken, returned dict
    \* ---- LakeshoreLogic ----
    lsTimer,      \* self.queryTimer is active
    lsQueue,      \* logic thread: queued slot calls, oldest first
    lsStack,      \* logic thread: the slots being executed, innermost last
    lsBus,        \* the last command sent to the power supplies
    lsClicks,     \* set-field / set-PSH requests sent by the panel so far
    \* ---- M2LaserLogic and M2ScannerGUI ----
    m2Locked,     \* module_state() == 'locked'
    m2StopRequested, \* self.stopRequested: stop the terascan loop
    m2StopRequest, \* self.stopRequest: stop the idle read loop
    m2Timer,      \* self.queryTimer is active
    m2Counter,    \* the counting device's clock and counter are set up
    m2ScanActive, \* start_terascan was sent and the scan has not ended
    m2Fresh,      \* setup_terascan was sent since the last scan ended
    m2Scans,      \* scans started since the user's last start (saturating)
    m2Queue,      \* logic thread: queued slot calls, oldest first
    m2GuiQueue,   \* GUI thread: queued scanComplete calls
    m2RepCount,   \* self.repetition_count
    m2Ret,        \* the last handler run: what it found, did and sent
    m2Pump,       \* stop_query_loop: rounds done, -1 when not in it
    m2NumScans,   \* the panel's numScans spin box
    m2Clicks,     \* clicks on the start/stop action so far
    m2ScanParams, \* M2LaserLogic.scanParams: the scan bounds the panel saved
    m2ScanInfo,   \* the bounds get_scan_info read at the last start click
    \* ---- ConfocalLogic ----
    cfActive,     \* the module is activated
    cfStatus,     \* self._statusVariables: the number of history_k keys
    cfHistory,    \* self.history: snapshots, oldest first
    cfHistoryIndex, \* self.history_index (0-based)
    cfStops,      \* scans ended through the stop branch since activation
    cfLocked,     \* getState() == 'locked'
    cfStopRequested, \* self.stopRequested
    cfScanCounter, \* self._scan_counter
    cfZscan,      \* self._zscan
    cfPermanent,  \* self.permanent_scan
    cfContinuable, \* self._xyscan_continuable, self._zscan_continuable
    cfHwOpen,     \* scanner and scanner clock are set up
    cfQueue,      \* logic thread: queued slot calls, oldest first
    cfPc,         \* _scan_line: "idle", or "scanning" past its stop check
    cfRet,        \* the last handler run: what it found and did
    \* ---- M2LaserLogic.countdata and M2ScannerGUI.update_data ----
    mbToken,      \* a queued sigCountDataNext call is waiting
    mbPc,         \* count_loop_body: the statement the logic thread is at
    mbSample,     \* samples read with get_counter so far
    mbUpdate,     \* what get_terascan_update returned last
    mbCountdata,  \* self.countdata: columns of [wavelength, count]
    mbSmoothed,   \* times self.countdata_smoothed has been rewritten
    mbGuiQueue,   \* GUI thread: queued update_data calls
    mbShown,      \* what update_data handed to the plot last
    mbLog,        \* what the running (or last) iteration did, in order
    \* ---- ConfocalLogic.initialize_image ----
    iiArgs, \* the module state initialize_image was called in
    iiOut,\* what it returned and the axes it built
    \* ---- M2 laser driver: transmission ids ----
    drvActivated, \* line 72 of on_activate has run: the driver holds an id
    drvId, \* self.transmission_id
    drvMsg, \* the last message _build_message returned
    drvRun,\* _build_message calls without an id since line 72; -1 once an id was passed
    \* ---- M2 laser driver: terascan rate ladder ----
    trRate, \* the rate passed to _trunc_terascan_rate, in kHz/s
    trOut,\* the rate it returned, in kHz/s; 0 before the call
    \* ---- M2 laser driver: stop_all_operation ----
    saPc, \* position of the running stop_all_operation call
    saRepeated, \* its argument repeated
    saAttempts, \* its local attempts
    saOperating, \* its local operating
    saRet,\* how the last call ended: returned value or the line that raised
    \* ---- AWG7k: write_waveform ----
    wwArgs, \* the arguments of the write_waveform call and the installed option 01
    wwOut, \* what it returned: the number and the waveform names
    wwFiles, \* WFM files written to the local disk by _write_wfm, in order
    wwSent, \* files transferred by _send_file, in order
    wwImported,\* waveforms imported with MMEM:IMP, in order
    \* ---- M2LaserLogic.order_data ----
    odCountdata, \* self.countdata as a sequence of columns <<wavelength, count>>
    odCalls,\* order_data calls made on this buffer
    \* ---- SITimeTaggerSlowCounter: sample clock ----
    scClock,\* the last set_up_clock call (frequency in kHz, return code) and self._bin_width in ps
    \* ---- M2ScannerWavemeter: polling timer and wavelength query ----
    wavemeter,\* module_state, the queued sig_handle_timer emissions, HardwarePull.timer, and the last get_current_wavelength call
    \* ---- M2LaserLogic: countdata between startCount and save_spectrum_data ----
    svScan,\* countdata, the number of samples recorded since startCount, and the sample the last write replaced
    \* ---- RNGLogic: the monitoring quasi-loop ----
    rngLoop,\* _isMonitoring, the queued repeat_sig emissions, whether loop_step is executing, _value_list and _monitor_samples_number
    \* ---- AWG7k: write_sequence ----
    wsCall \* the last write_sequence call: what it sent, what it returned, and _written_sequences before and after

gcVars == <<gcStatus, gcCounter, gcBinNumber, gcHwRunning, gcHwBins, gcRet,
            gcCalls, gcaPc, gcaTimeout, gcaElapsed, gcaEntry, gcaOut>>

awgVars == <<awgChState, awgOpt06, awgModel, awgInterleave, awgRunning,
             awgHwOut, awgHwDac, awgSent, awgRet>>

lsVars == <<lsTimer, lsQueue, lsStack, lsBus, lsClicks>>

m2Vars == <<m2Locked, m2StopRequested, m2StopRequest, m2Timer, m2Counter,
            m2ScanActive, m2Fresh, m2Scans, m2Queue, m2GuiQueue, m2RepCount,
            m2Ret, m2Pump, m2NumScans, m2Clicks, m2ScanParams,
            m2ScanInfo>>

cfVars == <<cfActive, cfStatus, cfHistory, cfHistoryIndex,
            cfStops, cfLocked, cfStopRequested, cfScanCounter,
            cfZscan, cfPermanent, cfContinuable, cfHwOpen, cfQueue, cfPc,
            cfRet>>

mbVars == <<mbToken, mbPc, mbSample, mbUpdate, mbCountdata, mbSmoothed,
            mbGuiQueue, mbShown, mbLog>>

iiVars == <<iiArgs, iiOut>>

drvVars == <<drvActivated, drvId, drvMsg, drvRun>>

trVars == <<trRate, trOut>>

saVars == <<saPc, saRepeated, saAttempts, saOperating, saRet>>

wwVars == <<wwArgs, wwOut, wwFiles, wwSent, wwImported>>

odVars == <<odCountdata, odCalls>>

scVars == <<scClock>>

wmVars == <<wavemeter>>

svVars == <<svScan>>

rngVars == <<rngLoop>>

wsVars == <<wsCall>>

vars == <<gcVars, awgVars, lsVars, m2Vars, cfVars, mbVars, iiVars, drvVars, trVars, saVars, wwVars, odVars, scVars, wmVars, svVars, rngVars, wsVars>>

-----------------------------------------------------------------------------
(* Bounds *)
MaxBins == 2          \* largest bin_number passed to init_counter
MaxSetStatusCalls == 6 \* direct _set_status calls explored by SpecSetStatus
MaxElapsed == 104     \* cap of the elapsed-time counter, in 1/100 s

(* Program constants *)
SleepDivisor == 100   \* sleep_time = timeout/100
Timeouts == {-1, 0, 1} \* timeout arguments of get_count_array, in seconds

Void == -1
Idle == 0
InProgress == 1
Finished == 2
Statuses == {Void, Idle, InProgress, Finished}

-----------------------------------------------------------------------------
(* A variant of _set_status that also lets a finished counter go idle. *)
SetStatusFinishedToIdle(cur, new) ==
    IF new = -1 THEN [status |-> -1, ret |-> 0]
    ELSE IF new = 0 THEN
        IF cur = -1 \/ cur = 1 \/ cur = 2 THEN [status |-> 0, ret |-> 0]
                                          ELSE [status |-> cur, ret |-> -1]
    ELSE IF new = 1 THEN
        IF cur = 0 \/ cur = 2 THEN [status |-> 1, ret |-> 0]
                              ELSE [status |-> cur, ret |-> -1]
    ELSE IF new = 2 THEN
        IF cur = 1 THEN [status |-> 2, ret |-> 0]
                   ELSE [status |-> cur, ret |-> -1]
    ELSE [status |-> cur, ret |-> "None"]

(* SITimeTaggerGatedCounter._set_status: the new status and the return code. *)
(* A new_status outside -1..2 falls through every branch: Python returns     *)
(* None (modelled as the string "None") and nothing changes.                 *)
SetStatus(cur, new) ==
    IF new = -1 THEN [status |-> -1, ret |-> 0]
    ELSE IF new = 0 THEN
        IF cur = -1 \/ cur = 1 THEN [status |-> 0, ret |-> 0]
                               ELSE [status |-> cur, ret |-> -1]
    ELSE IF new = 1 THEN
        IF cur = 0 \/ cur = 2 THEN [status |-> 1, ret |-> 0]
                              ELSE [status |-> cur, ret |-> -1]
    ELSE IF new = 2 THEN
        IF cur = 1 THEN [status |-> 2, ret |-> 0]
                   ELSE [status |-> cur, ret |-> -1]
    ELSE [status |-> cur, ret |-> "None"]

(* The counter object as a record, so that the methods compose. *)
GcState == [status |-> gcStatus, counter |-> gcCounter, bins |-> gcBinNumber,
            running |-> gcHwRunning, hwBins |-> gcHwBins]

(* A variant of close_counter that drops the reference and leaves the       *)
(* status as it was.                                                        *)
CloseCounterKeepsStatus(s) ==
    [s EXCEPT !.counter = FALSE, !.running = FALSE, !.hwBins = 0]

(* close_counter: stop()/clear() inside try/except-pass, drop the reference, *)
(* set status void.  Dropping the reference ends the measurement.            *)
CloseCounter(s) ==
    [s EXCEPT !.counter = FALSE, !.status = SetStatus(s.status, -1).status,
              !.running = FALSE, !.hwBins = 0]

(* CountBetweenMarkers.ready(): all n_values gate pulses were recorded. *)
HwReady(s) == s.hwBins >= s.bins

(* get_status: isRunning() raises when there is no measurement or the vendor *)
(* call fails (vendorOk = FALSE); then close_counter().  An in_progress      *)
(* counter whose measurement is ready becomes finished by direct assignment. *)
GetStatus(s, vendorOk) ==
    LET t == IF s.counter /\ vendorOk THEN s ELSE CloseCounter(s)
    IN  IF t.status = 1 /\ HwReady(t) THEN [t EXCEPT !.status = 2] ELSE t

(* init_counter(bin_number) *)
InitCounterFx(s, n, vendorOk) ==
    LET c == CloseCounter(s)
    IN  IF vendorOk
        THEN [state |-> [c EXCEPT !.counter = TRUE,
                                  !.status = SetStatus(c.status, 0).status,
                                  !.bins = n, !.running = FALSE, !.hwBins = 0],
              ret |-> 0]
        ELSE [state |-> [c EXCEPT !.counter = FALSE,
                                  !.status = SetStatus(c.status, -1).status],
              ret |-> -1]

(* A variant of start_counting that reports the failed restart and keeps the *)
(* counter.                                                                  *)
StartCountingKeepsCounter(s, statusOk, vendorOk) ==
    LET g == GetStatus(s, statusOk)
    IN  IF g.status = -1 THEN [state |-> g, ret |-> -1]
        ELSE IF vendorOk
        THEN [state |-> [g EXCEPT !.running = TRUE, !.hwBins = 0,
                                  !.status = SetStatus(g.status, 1).status],
              ret |-> 0]
        ELSE [state |-> g, ret |-> -1]

(* start_counting: get_status() first; then stop/clear/start in a try block; *)
(* vendorOk = FALSE is a vendor call raising NotImplementedError, the error  *)
(* the except clause names.                                                  *)
StartCountingFx(s, statusOk, vendorOk) ==
    LET g == GetStatus(s, statusOk)
    IN  IF g.status = -1 THEN [state |-> g, ret |-> -1]
        ELSE IF vendorOk
        THEN [state |-> [g EXCEPT !.running = TRUE, !.hwBins = 0,
                                  !.status = SetStatus(g.status, 1).status],
              ret |-> 0]
        ELSE [state |-> CloseCounter(g), ret |-> -1]

(* terminate_counting: stop/clear, _set_status(0), return 0; on any exception *)
(* (no measurement, vendor failure) close_counter() and return -1.  The       *)
(* return code of _set_status is not looked at.                               *)
TerminateCountingFx(s, vendorOk) ==
    IF s.counter /\ vendorOk
    THEN [state |-> [s EXCEPT !.running = FALSE, !.hwBins = 0,
                              !.status = SetStatus(s.status, 0).status],
          ret |-> 0]
    ELSE [state |-> CloseCounter(s), ret |-> -1]

GcStore(s) ==
    /\ gcStatus' = s.status
    /\ gcCounter' = s.counter
    /\ gcBinNumber' = s.bins
    /\ gcHwRunning' = s.running
    /\ gcHwBins' = s.hwBins

NoCall == [op |-> "none", pre |-> -1, arg |-> 0, ok |-> TRUE, val |-> 0]

GcaIdleVars == <<gcaPc, gcaTimeout, gcaElapsed, gcaEntry, gcaOut>>

-----------------------------------------------------------------------------
(* Actions of the gated counter *)

init_counter ==
    \E n \in 1..MaxBins, ok \in BOOLEAN :
        LET r == InitCounterFx(GcState, n, ok)
        IN  /\ GcStore(r.state)
            /\ gcRet' = [op |-> "init_counter", pre |-> gcStatus, arg |-> n,
                         ok |-> ok, val |-> r.ret]
            /\ UNCHANGED <<gcCalls, GcaIdleVars>>

start_counting ==
    \E sok \in BOOLEAN, ok \in BOOLEAN :
        LET r == StartCountingFx(GcState, sok, ok)
        IN  /\ GcStore(r.state)
            /\ gcRet' = [op |-> "start_counting", pre |-> gcStatus, arg |-> 0,
                         ok |-> (sok /\ ok), val |-> r.ret]
            /\ UNCHANGED <<gcCalls, GcaIdleVars>>

terminate_counting ==
    \E ok \in BOOLEAN :
        LET r == TerminateCountingFx(GcState, ok)
        IN  /\ GcStore(r.state)
            /\ gcRet' = [op |-> "terminate_counting", pre |-> gcStatus,
                         arg |-> 0, ok |-> ok, val |-> r.ret]
            /\ UNCHANGED <<gcCalls, GcaIdleVars>>

get_status ==
    \E ok \in BOOLEAN :
        LET g == GetStatus(GcState, ok)
        IN  /\ GcStore(g)
            /\ gcRet' = [op |-> "get_status", pre |-> gcStatus, arg |-> 0,
                         ok |-> ok, val |-> g.status]
            /\ UNCHANGED <<gcCalls, GcaIdleVars>>

close_counter ==
    /\ GcStore(CloseCounter(GcState))
    /\ gcRet' = [op |-> "close_counter", pre |-> gcStatus, arg |-> 0,
                 ok |-> TRUE, val |-> 0]
    /\ UNCHANGED <<gcCalls, GcaIdleVars>>

(* The hardware: a gate pulse arrives while the measurement runs. *)
GatePulse ==
    /\ gcHwRunning
    /\ gcHwBins < gcBinNumber
    /\ gcHwBins' = gcHwBins + 1
    /\ UNCHANGED <<gcStatus, gcCounter, gcBinNumber, gcHwRunning, gcRet,
                   gcCalls, GcaIdleVars>>

(* get_count_array(timeout): entry. start_time = time.time(). *)
GcaCall ==
    /\ gcaPc = "idle"
    /\ \E t \in Timeouts :
        /\ gcaTimeout' = t
        /\ gcaPc' = "loop"
        /\ gcaElapsed' = 0
        /\ gcaEntry' = -2
        /\ gcaOut' = "none"
    /\ UNCHANGED <<gcStatus, gcCounter, gcBinNumber, gcHwRunning, gcHwBins,
                   gcRet, gcCalls>>

(* The break test of the waiting loop: time.time() - start_time > timeout,  *)
(* both sides in 1/100 s.                                                   *)
TimedOut(elapsed, timeout) == elapsed > timeout * SleepDivisor

(* One evaluation of "while self.get_status() == 1" and of the loop body:   *)
(* break when the time is up, else time.sleep(timeout/100), which raises    *)
(* ValueError for a negative argument.  The clock may advance by one more   *)
(* tick than the sleep.                                                     *)
GcaLoop ==
    /\ gcaPc = "loop"
    /\ \E ok \in BOOLEAN, extra \in 0..1 :
        LET g == GetStatus(GcState, ok)
        IN  /\ GcStore(g)
            /\ gcaEntry' = IF gcaEntry = -2 THEN g.status ELSE gcaEntry
            /\ IF g.status # 1 THEN
                    /\ gcaPc' = "after"
                    /\ gcaElapsed' = gcaElapsed
               ELSE IF TimedOut(gcaElapsed, gcaTimeout) THEN
                    /\ gcaPc' = "after"
                    /\ gcaElapsed' = gcaElapsed
               ELSE IF gcaTimeout < 0 THEN
                    /\ gcaPc' = "raised"
                    /\ gcaElapsed' = gcaElapsed
               ELSE /\ gcaPc' = "loop"
                    /\ gcaElapsed' = IF gcaElapsed + gcaTimeout + extra > MaxElapsed
                                     THEN MaxElapsed
                                     ELSE gcaElapsed + gcaTimeout + extra
            /\ gcRet' = [op |-> "get_status", pre |-> gcStatus, arg |-> 0,
                         ok |-> ok, val |-> g.status]
    /\ UNCHANGED <<gcCalls, gcaTimeout, gcaOut>>

(* A variant that also hands out the array of a measurement still running. *)
CountArrayWhileRunning(status) ==
    IF status = 2 \/ status = 1 THEN "data" ELSE "empty"

(* lines 303-322: np.array(self._counter.getData()) if status == 2, else [] *)
CountArrayResult(status) == IF status = 2 THEN "data" ELSE "empty"

(* After the loop: status = self.get_status(); the count array only when    *)
(* finished, [] otherwise.                                                  *)
GcaAfter ==
    /\ gcaPc = "after"
    /\ \E ok \in BOOLEAN :
        LET g == GetStatus(GcState, ok)
        IN  /\ GcStore(g)
            /\ gcaOut' = CountArrayResult(g.status)
            /\ gcRet' = [op |-> "get_count_array", pre |-> gcaEntry,
                         arg |-> gcaTimeout, ok |-> ok, val |-> g.status]
    /\ gcaPc' = "done"
    /\ UNCHANGED <<gcCalls, gcaTimeout, gcaElapsed, gcaEntry>>

(* The caller takes the result (or the exception). *)
GcaReturn ==
    /\ gcaPc \in {"done", "raised"}
    /\ gcaPc' = "idle"
    /\ UNCHANGED <<gcStatus, gcCounter, gcBinNumber, gcHwRunning, gcHwBins,
                   gcRet, gcCalls, gcaTimeout, gcaElapsed, gcaEntry, gcaOut>>

(* A direct call of _set_status(new_status), in any status. *)
SetStatusCall ==
    /\ gcCalls < MaxSetStatusCalls
    /\ \E new \in -1..3 :
        LET r == SetStatus(gcStatus, new)
        IN  /\ gcStatus' = r.status
            /\ gcRet' = [op |-> "_set_status", pre |-> gcStatus, arg |-> new,
                         ok |-> TRUE, val |-> r.ret]
    /\ gcCalls' = gcCalls + 1
    /\ UNCHANGED <<gcCounter, gcBinNumber, gcHwRunning, gcHwBins, GcaIdleVars>>


-----------------------------------------------------------------------------
(* AWG7k: staged channel activation *)

Channels == {"a_ch1", "a_ch2", "d_ch1", "d_ch2", "d_ch3", "d_ch4"}

(* Requests that name a channel the instrument does not have. *)
BadKeyRequests ==
    {[c \in {"d_ch5"} |-> TRUE], [c \in {"a_ch1", "d_ch5"} |-> TRUE]}

(* constraints.activation_config.values() of get_constraints *)
ActivationConfigs ==
    { {},
      {"a_ch1", "d_ch1", "d_ch2", "a_ch2", "d_ch3", "d_ch4"},
      {"a_ch1", "d_ch1", "d_ch2"},
      {"a_ch2", "d_ch3", "d_ch4"},
      {"a_ch1", "a_ch2"},
      {"a_ch1"},
      {"a_ch2"},
      {"a_ch1", "d_ch1", "d_ch2", "a_ch2"},
      {"a_ch1", "a_ch2", "d_ch3", "d_ch4"} }

AllOff == [c \in Channels |-> FALSE]

(* {chnl for chnl in new_ch_state_dict if new_ch_state_dict[chnl]} *)
ActiveSet(d) == {c \in Channels : d[c]}

(* A variant of the membership test that only asks that every active marker *)
(* has its analog channel active.                                           *)
ConfigAllowedMarkersNeedAnalog(active) ==
    /\ ({"d_ch1", "d_ch2"} \cap active # {}) => "a_ch1" \in active
    /\ ({"d_ch3", "d_ch4"} \cap active # {}) => "a_ch2" \in active

(* new_active_channels_set in constraints.activation_config.values() *)
ConfigAllowed(active) == active \in ActivationConfigs

(* get_interleave(): a query only when the interleave option is installed *)
GetInterleaveSent(opt06) == IF opt06 THEN <<"AWGC:INT:STAT?">> ELSE <<>>

(* get_constraints(): get_interleave() for the two known models, then      *)
(* _zeroing_enabled(), which queries when the option is installed.          *)
GetConstraintsSent(model, opt06) ==
    (IF model \in {"AWG7122C", "AWG7082C"} THEN GetInterleaveSent(opt06) ELSE <<>>)
        \o (IF opt06 THEN <<"AWGC:INT:ZER?">> ELSE <<>>)

(* get_active_channels(): _get_all_analog_channels() and                    *)
(* _get_all_digital_channels() each call get_interleave(); the result is a   *)
(* copy of _ch_state_dict.                                                  *)
GetActiveChannelsSent(opt06) == GetInterleaveSent(opt06) \o GetInterleaveSent(opt06)

(* _get_all_analog_channels(): channel 2 is hidden while interleave is on *)
AnalogChannels(interleave) == IF interleave THEN {1} ELSE {1, 2}

AnalogName(n) == IF n = 1 THEN "a_ch1" ELSE "a_ch2"
SecondMarker(n) == IF n = 1 THEN "d_ch2" ELSE "d_ch4"

(* dac_res = 10 - marker_num *)
DacRes(d, n) == IF d[SecondMarker(n)] THEN 8 ELSE 10

(* A variant of set_active_channels that switches the instrument at once,  *)
(* as the earlier implementation kept in the file's comments did.           *)
SetActiveChannelsImmediate(cur, req, model, opt06, out, dac) ==
    IF ~req.given THEN
        [state |-> cur, val |-> cur, branch |-> "none", sent |-> <<>>,
         out |-> out, dac |-> dac]
    ELSE IF ~(DOMAIN req.ch \subseteq Channels) THEN
        [state |-> cur, val |-> cur, branch |-> "bad_key", sent |-> <<>>,
         out |-> out, dac |-> dac]
    ELSE
        LET new == [c \in Channels |->
                        IF c \in DOMAIN req.ch THEN req.ch[c] ELSE cur[c]]
        IN  IF ~ConfigAllowed(ActiveSet(new)) THEN
                [state |-> cur, val |-> cur, branch |-> "rejected",
                 sent |-> GetConstraintsSent(model, opt06),
                 out |-> out, dac |-> dac]
            ELSE
                [state |-> new, val |-> new, branch |-> "accepted",
                 sent |-> GetConstraintsSent(model, opt06)
                            \o <<"SOUR:DAC:RES", "OUTPUT:STATE">>
                            \o GetActiveChannelsSent(opt06),
                 out |-> [n \in {1, 2} |-> new[AnalogName(n)]],
                 dac |-> [n \in {1, 2} |-> DacRes(new, n)]]

(* set_active_channels(ch): req.given is FALSE for ch = None; otherwise     *)
(* req.ch is the dict channel name -> bool.                                 *)
(* The result: the staged state, the returned dict, the branch taken, the   *)
(* messages sent and the instrument's output/DAC state.                     *)
SetActiveChannelsFx(cur, req, model, opt06, out, dac) ==
    IF ~req.given THEN
        [state |-> cur, val |-> cur, branch |-> "none", sent |-> <<>>,
         out |-> out, dac |-> dac]
    ELSE IF ~(DOMAIN req.ch \subseteq Channels) THEN
        [state |-> cur, val |-> cur, branch |-> "bad_key", sent |-> <<>>,
         out |-> out, dac |-> dac]
    ELSE
        LET new == [c \in Channels |->
                        IF c \in DOMAIN req.ch THEN req.ch[c] ELSE cur[c]]
        IN  IF ~ConfigAllowed(ActiveSet(new)) THEN
                [state |-> cur, val |-> cur, branch |-> "rejected",
                 sent |-> GetConstraintsSent(model, opt06),
                 out |-> out, dac |-> dac]
            ELSE
                [state |-> new, val |-> new, branch |-> "accepted",
                 sent |-> GetConstraintsSent(model, opt06)
                            \o GetActiveChannelsSent(opt06),
                 out |-> out, dac |-> dac]

(* The largest partial request: a dict naming fewer channels than all of   *)
(* them names at most this many.                                            *)
MaxPartialKeys == 2

RequestDomains ==
    {D \in SUBSET Channels : D = Channels \/ Cardinality(D) <= MaxPartialKeys}

(* The requests: None, every complete dict, every partial dict of up to    *)
(* MaxPartialKeys channels, and two dicts with a name the instrument does   *)
(* not have.                                                                *)
Requests ==
    {[given |-> TRUE, ch |-> c] :
        c \in UNION {[D -> BOOLEAN] : D \in RequestDomains}
                \cup BadKeyRequests}
    \cup {[given |-> FALSE, ch |-> <<>>]}

set_active_channels ==
    \E req \in Requests :
        LET r == SetActiveChannelsFx(awgChState, req, awgModel, awgOpt06,
                                     awgHwOut, awgHwDac)
        IN  /\ awgChState' = r.state
            /\ awgSent' = r.sent
            /\ awgHwOut' = r.out
            /\ awgHwDac' = r.dac
            /\ awgRet' = [op |-> "set_active_channels", branch |-> r.branch,
                          val |-> r.val]
            /\ UNCHANGED <<awgOpt06, awgModel, awgInterleave, awgRunning>>

(* pulser_on(): when the instrument is not running, _activate_channels()    *)
(* writes DAC resolution and output state of every analog channel from the  *)
(* staged dict, then AWGC:RUN and the wait until it runs.                   *)
pulser_on ==
    /\ IF ~awgRunning
       THEN /\ awgHwDac' = [n \in {1, 2} |->
                                IF n \in AnalogChannels(awgInterleave)
                                THEN DacRes(awgChState, n) ELSE awgHwDac[n]]
            /\ awgHwOut' = [n \in {1, 2} |->
                                IF n \in AnalogChannels(awgInterleave)
                                THEN awgChState[AnalogName(n)] ELSE awgHwOut[n]]
            /\ awgRunning' = TRUE
            /\ awgSent' = <<"AWGC:RST?">> \o GetInterleaveSent(awgOpt06)
                            \o <<"SOUR:DAC:RES", "OUTPUT:STATE", "AWGC:RUN",
                                 "AWGC:RST?", "SYST:ERR?", "AWGC:RST?">>
       ELSE /\ UNCHANGED <<awgHwDac, awgHwOut, awgRunning>>
            /\ awgSent' = <<"AWGC:RST?", "AWGC:RST?">>
    /\ awgRet' = [op |-> "pulser_on", branch |-> "none", val |-> awgChState]
    /\ UNCHANGED <<awgChState, awgOpt06, awgModel, awgInterleave>>

(* pulser_off(): when running, AWGC:STOP, wait, OUTPUT<n>:STATE OFF for     *)
(* every analog channel.                                                    *)
pulser_off ==
    /\ IF awgRunning
       THEN /\ awgHwOut' = [n \in {1, 2} |->
                                IF n \in AnalogChannels(awgInterleave)
                                THEN FALSE ELSE awgHwOut[n]]
            /\ awgRunning' = FALSE
            /\ awgSent' = <<"AWGC:RST?", "AWGC:STOP", "AWGC:RST?">>
                            \o GetInterleaveSent(awgOpt06)
                            \o <<"OUTPUT:STATE", "SYST:ERR?", "AWGC:RST?">>
       ELSE /\ UNCHANGED <<awgHwOut, awgRunning>>
            /\ awgSent' = <<"AWGC:RST?", "SYST:ERR?", "AWGC:RST?">>
    /\ awgRet' = [op |-> "pulser_off", branch |-> "none", val |-> awgChState]
    /\ UNCHANGED <<awgChState, awgOpt06, awgModel, awgInterleave, awgHwDac>>

(* set_interleave(state): written only when the option is installed and    *)
(* the state differs.                                                       *)
set_interleave ==
    \E state \in BOOLEAN :
        /\ IF state # (awgOpt06 /\ awgInterleave) /\ awgOpt06
           THEN /\ awgInterleave' = state
                /\ awgSent' = <<"AWGC:INT:STAT?", "AWGC:INT:STAT", "*OPC?",
                                "SYST:ERR?", "AWGC:INT:STAT?">>
           ELSE /\ awgInterleave' = awgInterleave
                /\ awgSent' = GetInterleaveSent(awgOpt06)
        /\ awgRet' = [op |-> "set_interleave", branch |-> "none",
                      val |-> awgChState]
        /\ UNCHANGED <<awgChState, awgOpt06, awgModel, awgRunning, awgHwOut,
                       awgHwDac>>

AwgIdle ==
    /\ awgChState = AllOff
    /\ awgOpt06 = FALSE
    /\ awgModel = "AWG7122C"
    /\ awgInterleave = FALSE
    /\ awgRunning = FALSE
    /\ awgHwOut = [n \in {1, 2} |-> FALSE]
    /\ awgHwDac = [n \in {1, 2} |-> 10]
    /\ awgSent = <<>>
    /\ awgRet = [op |-> "none", branch |-> "none", val |-> AllOff]

(* __init__ and on_activate: all channels staged off; the model and the    *)
(* installed options are what the connected instrument reports.             *)
AwgInit ==
    /\ awgChState = AllOff
    /\ awgOpt06 \in BOOLEAN
    /\ awgModel \in {"AWG7122C", "other"}
    /\ awgInterleave = FALSE
    /\ awgRunning = FALSE
    /\ awgHwOut = [n \in {1, 2} |-> FALSE]
    /\ awgHwDac = [n \in {1, 2} |-> 10]
    /\ awgSent = <<>>
    /\ awgRet = [op |-> "none", branch |-> "none", val |-> AllOff]

-----------------------------------------------------------------------------
(* LakeshoreLogic (logic/lakeshore_magnet_logic.py).                        *)
(* The module's slots run in the logic thread, one at a time, each called   *)
(* by the thread's event loop: the timer's timeout is connected to          *)
(* query_fields with a queued connection, and the panel's sigSetFields and  *)
(* sigSetPSH reach set_field and set_psh across threads, hence queued too.  *)
(* lsQueue is the thread's queue of posted slot calls; lsStack is the       *)
(* thread's call stack of slots, the running slot last. A slot sits under   *)
(* another one only while it is inside processEvents().                     *)

(* Bounds *)
MaxLsQueue == 3       \* slot calls waiting in the logic thread's queue
MaxLsClicks == 3      \* set-field / set-PSH requests the panel sends

(* range(10): the number of processEvents() calls before a write. *)
PumpCount == 10
Axes == {0, 1, 2}

LsSetOps == {"set_field", "set_psh"}
LsSlots == LsSetOps \cup {"query_fields"}

LsFrame(op, pc, n) == [op |-> op, pc |-> pc, n |-> n]

(* The frame a slot starts in: set_field/set_psh before their first         *)
(* processEvents(), query_fields before get_field(0).                       *)
LsEntry(op) ==
    IF op \in LsSetOps THEN LsFrame(op, "pump", 0)
    ELSE LsFrame(op, "get_field", 0)

(* A variant in which the 120 ms wait after the writes also runs the event  *)
(* loop.                                                                    *)
LsPumpingOrDelaying(f) == f.op \in LsSetOps /\ f.pc \in {"pump", "delay"}

(* The slot is inside QCoreApplication.processEvents(): the only place      *)
(* where a running slot lets queued slot calls run.                         *)
LsPumping(f) == f.op \in LsSetOps /\ f.pc = "pump"

LsTop == lsStack[Len(lsStack)]

LsPop == SubSeq(lsStack, 1, Len(lsStack) - 1)

LsReplaceTop(f) == Append(LsPop, f)

(* The timer is active and its interval has passed: the timeout's queued    *)
(* call of query_fields is posted.                                          *)
LsTimeout ==
    /\ lsTimer
    /\ Len(lsQueue) < MaxLsQueue
    /\ lsQueue' = Append(lsQueue, "query_fields")
    /\ UNCHANGED <<lsTimer, lsStack, lsBus, lsClicks>>

(* MagnetGUI.setFields / setPSH: the panel emits sigSetFields / sigSetPSH. *)
LsRequest(op) ==
    /\ lsClicks < MaxLsClicks
    /\ Len(lsQueue) < MaxLsQueue
    /\ lsQueue' = Append(lsQueue, op)
    /\ lsClicks' = lsClicks + 1
    /\ UNCHANGED <<lsTimer, lsStack, lsBus>>

setFields == LsRequest("set_field")

setPSH == LsRequest("set_psh")

(* The event loop (the thread's own, or a processEvents() call of the       *)
(* running slot) calls the first queued slot. set_field and set_psh begin   *)
(* with queryTimer.stop().                                                  *)
LsDispatch ==
    /\ lsQueue # <<>>
    /\ IF lsStack = <<>> THEN TRUE ELSE LsPumping(LsTop)
    /\ lsStack' = Append(lsStack, LsEntry(Head(lsQueue)))
    /\ lsQueue' = Tail(lsQueue)
    /\ lsTimer' = IF Head(lsQueue) \in LsSetOps THEN FALSE ELSE lsTimer
    /\ UNCHANGED <<lsBus, lsClicks>>

(* processEvents() returns and the slot sleeps queryInterval; after the     *)
(* tenth round it goes on to the writes. processEvents() can return with    *)
(* calls still queued: those posted by a timeout raised in the same call.   *)
LsPumpReturn ==
    /\ lsStack # <<>> /\ LsPumping(LsTop)
    /\ lsStack' = LsReplaceTop(
            IF LsTop.n + 1 < PumpCount
            THEN LsFrame(LsTop.op, "pump", LsTop.n + 1)
            ELSE LsFrame(LsTop.op, "write", 0))
    /\ UNCHANGED <<lsTimer, lsQueue, lsBus, lsClicks>>

(* self._magnets.set_field(n, ...) / set_psh(n, ...) for n = 0, 1, 2. *)
LsWrite ==
    /\ lsStack # <<>> /\ LsTop.op \in LsSetOps /\ LsTop.pc = "write"
    /\ lsBus' = LsTop.op
    /\ lsStack' = LsReplaceTop(
            IF LsTop.n + 1 \in Axes
            THEN LsFrame(LsTop.op, "write", LsTop.n + 1)
            ELSE LsFrame(LsTop.op, "delay", 0))
    /\ UNCHANGED <<lsTimer, lsQueue, lsClicks>>

(* time.sleep(.120), then start_query_loop() and the slot returns. *)
LsDelayReturn ==
    /\ lsStack # <<>> /\ LsTop.op \in LsSetOps /\ LsTop.pc = "delay"
    /\ lsTimer' = TRUE
    /\ lsStack' = LsPop
    /\ UNCHANGED <<lsQueue, lsBus, lsClicks>>

(* query_fields: get_field(0..2), sleep(.105), get_psh(0..2), then the      *)
(* readings are emitted and the slot returns.                               *)
query_fields ==
    /\ lsStack # <<>> /\ LsTop.op = "query_fields"
    /\ lsBus' = LsTop.pc
    /\ lsStack' =
            IF LsTop.n + 1 \in Axes
            THEN LsReplaceTop(LsFrame(LsTop.op, LsTop.pc, LsTop.n + 1))
            ELSE IF LsTop.pc = "get_field"
            THEN LsReplaceTop(LsFrame(LsTop.op, "get_psh", 0))
            ELSE LsPop
    /\ UNCHANGED <<lsTimer, lsQueue, lsClicks>>

LsIdle ==
    /\ lsTimer = TRUE
    /\ lsQueue = <<>>
    /\ lsStack = <<>>
    /\ lsBus = "none"
    /\ lsClicks = 0

(* on_activate: the timer is created and started; nothing is queued. *)
LsInit == LsIdle

-----------------------------------------------------------------------------
(* M2LaserLogic (logic/m2_laser_logic.py) and the M2ScannerGUI handlers     *)
(* that drive it (gui/m2_scanner/m2scanner.py).                             *)
(* The logic's slots run in the logic thread, called by its event loop from *)
(* m2Queue: check_laser_loop by the timer's queued timeout, count_loop_body *)
(* by the queued sigCountDataNext, startCount and stopCount by the panel's  *)
(* sigStartCounter and sigStopCounter. A slot runs to its end before the    *)
(* next one is called, except inside stop_query_loop(), whose               *)
(* processEvents() calls run queued slots while count_loop_body waits.      *)
(* The panel's handlers run in the GUI thread: start_clicked and            *)
(* save_spectrum_data on the user's clicks, scanComplete on the queued      *)
(* sigScanComplete. The counting hardware's set_up/close calls succeed.     *)

(* Bounds *)
MaxM2Queue == 3       \* slot calls the panel and the timer keep queued
MaxM2Clicks == 3      \* clicks on the start/stop action
MaxRepCount == 3      \* largest repetition_count followed
MaxNumScans == 2      \* largest value of the numScans spin box
MaxSessionScans == 4  \* scans of one session that are counted

(* range(10) in stop_query_loop. *)
M2PumpCount == 10

M2Event(slot, origin) == [slot |-> slot, origin |-> origin]

CountDataNext == M2Event("count_loop_body", "sigCountDataNext")

(* What startCount sends to the laser before anything else. *)
StartSequence == <<"flush", "setup_terascan", "start_terascan">>

M2Ret(op, origin, branch) ==
    [op |-> op, origin |-> origin, branch |-> branch, flag |-> FALSE,
     read |-> FALSE, negative |-> FALSE, recorded |-> FALSE,
     rearmed |-> FALSE, sent |-> <<>>]

(* The state the handlers work on. *)
M2State ==
    [locked |-> m2Locked, stopRequested |-> m2StopRequested,
     stopRequest |-> m2StopRequest, timer |-> m2Timer,
     counter |-> m2Counter, scanActive |-> m2ScanActive, fresh |-> m2Fresh,
     scans |-> m2Scans,
     queue |-> m2Queue, gui |-> m2GuiQueue, rep |-> m2RepCount,
     ret |-> m2Ret]

M2Store(s) ==
    /\ m2Locked' = s.locked
    /\ m2StopRequested' = s.stopRequested
    /\ m2StopRequest' = s.stopRequest
    /\ m2Timer' = s.timer
    /\ m2Counter' = s.counter
    /\ m2ScanActive' = s.scanActive
    /\ m2Fresh' = s.fresh
    /\ m2Scans' = s.scans
    /\ m2Queue' = s.queue
    /\ m2GuiQueue' = s.gui
    /\ m2RepCount' = s.rep
    /\ m2Ret' = s.ret

(* The event loop takes the first queued call off the queue. *)
M2Taken(s) == [s EXCEPT !.queue = Tail(s.queue)]

(* check_laser_loop: nothing while stopRequest is set; otherwise the laser  *)
(* is asked for its wavelength and sigUpdate is emitted.                    *)
CheckLaserLoop(s) ==
    IF s.stopRequest
    THEN [s EXCEPT !.ret = M2Ret("check_laser_loop", "timeout", "paused")]
    ELSE [s EXCEPT !.ret = [M2Ret("check_laser_loop", "timeout", "queried")
                                EXCEPT !.sent = <<"get_wavelength">>]]

(* CounterLogic.stopCount (connected to sigStopCounter): the flag is set    *)
(* when the module is locked.                                               *)
StopCount(s) ==
    IF s.locked
    THEN [s EXCEPT !.stopRequested = TRUE,
                   !.ret = M2Ret("stopCount", "start_clicked", "set")]
    ELSE [s EXCEPT !.ret = M2Ret("stopCount", "start_clicked", "ignored")]

(* startCount: flush, setup_terascan and start_terascan go to the laser     *)
(* first; then, unless the module is locked already, it is locked, clock    *)
(* and counter are set up, the buffers are cleared and sigCountDataNext is  *)
(* emitted.                                                                 *)
StartCount(s, origin) ==
    IF s.locked
    THEN [s EXCEPT !.scanActive = TRUE, !.fresh = TRUE,
                   !.ret = [M2Ret("startCount", origin, "already_locked")
                                EXCEPT !.sent = StartSequence]]
    ELSE [s EXCEPT !.scanActive = TRUE, !.fresh = TRUE,
                   !.locked = TRUE, !.counter = TRUE,
                   !.scans = IF origin = "start_clicked" THEN 1
                             ELSE IF s.scans < MaxSessionScans
                             THEN s.scans + 1 ELSE s.scans,
                   !.queue = Append(s.queue, CountDataNext),
                   !.ret = [M2Ret("startCount", origin, "started")
                                EXCEPT !.sent = StartSequence,
                                       !.rearmed = TRUE]]

(* count_loop_body, the branch taken when stopRequested is set: counter and *)
(* clock are closed, stop_terascan goes to the laser, the flag is cleared   *)
(* and the module unlocked; sigCountDataNext is not emitted.                *)
CountLoopStop(s) ==
    [s EXCEPT !.counter = FALSE, !.scanActive = FALSE, !.fresh = FALSE,
              !.stopRequested = FALSE, !.locked = FALSE,
              !.ret = [M2Ret("count_loop_body", "sigCountDataNext", "stopped")
                            EXCEPT !.flag = TRUE,
                                   !.sent = <<"stop_terascan">>]]

(* count_loop_body past the stop check: one sample is read with             *)
(* get_counter, the laser's terascan update is fetched, and                 *)
(*   - stitching: nothing is recorded, sigCountDataNext is emitted;         *)
(*   - complete: counter and clock are closed, sigScanComplete is emitted,  *)
(*     stopRequest is cleared and the timer started; no sigCountDataNext;   *)
(*   - a negative count: stopRequested is set, sigCountDataNext is emitted; *)
(*   - otherwise the sample is recorded and sigCountDataNext is emitted.    *)
(* negative: rawdata[0, 0] < 0 for the sample read.                         *)
CountLoopRead(s, activity, negative) ==
    LET ret(branch) ==
            [M2Ret("count_loop_body", "sigCountDataNext", branch)
                EXCEPT !.read = TRUE, !.negative = negative,
                       !.sent = <<"get_terascan_update">>]
    IN  IF activity = "stitching" THEN
            [s EXCEPT !.queue = Append(s.queue, CountDataNext),
                      !.ret = [ret("stitching") EXCEPT !.rearmed = TRUE]]
        ELSE IF activity = "complete" THEN
            [s EXCEPT !.counter = FALSE, !.gui = s.gui + 1,
                      !.stopRequest = FALSE, !.timer = TRUE,
                      !.scanActive = FALSE, !.fresh = FALSE,
                      !.ret = ret("complete")]
        ELSE IF negative THEN
            [s EXCEPT !.stopRequested = TRUE,
                      !.queue = Append(s.queue, CountDataNext),
                      !.ret = [ret("killed") EXCEPT !.rearmed = TRUE]]
        ELSE
            [s EXCEPT !.queue = Append(s.queue, CountDataNext),
                      !.ret = [ret("counted") EXCEPT !.rearmed = TRUE,
                                                     !.recorded = TRUE]]

(* A variant that reads and records the sample before it looks at the flag. *)
CountLoopBodyReadsFirst(s, activity, negative) ==
    IF ~s.locked THEN
        [s EXCEPT !.ret = M2Ret("count_loop_body", "sigCountDataNext",
                                "unlocked")]
    ELSE IF s.stopRequested THEN
        [CountLoopStop(s) EXCEPT !.ret.read = TRUE, !.ret.recorded = TRUE]
    ELSE CountLoopRead(s, activity, negative)

(* count_loop_body after its stop_query_loop() call. *)
CountLoopBody(s, activity, negative) ==
    IF ~s.locked THEN
        [s EXCEPT !.ret = M2Ret("count_loop_body", "sigCountDataNext",
                                "unlocked")]
    ELSE IF s.stopRequested THEN CountLoopStop(s)
    ELSE CountLoopRead(s, activity, negative)

Activities == {"stitching", "complete", "scanning"}

(* count_loop_body past the stop check when get_counter or                  *)
(* get_terascan_update raises: nothing catches the exception, so the slot   *)
(* ends there (the with-statement releases threadlock); nothing is          *)
(* recorded, no signal is emitted, the flags and the module state stay as   *)
(* they were.                                                               *)
CountLoopRaise(s) ==
    [s EXCEPT !.ret = [M2Ret("count_loop_body", "sigCountDataNext", "raised")
                            EXCEPT !.read = TRUE]]

(* A variant of scanComplete that starts the next repetition by re-arming   *)
(* the counter and the loop, without startCount.                            *)
ScanCompleteRearmOnly(s, numScans) ==
    LET rep == IF numScans # 1 THEN s.rep + 1 ELSE s.rep
    IN  IF numScans = rep \/ rep = 0 THEN
            [s EXCEPT !.gui = s.gui - 1, !.rep = 0, !.locked = FALSE,
                      !.ret = M2Ret("scanComplete", "sigScanComplete",
                                    "final")]
        ELSE
            [s EXCEPT !.gui = s.gui - 1, !.rep = rep, !.counter = TRUE,
                      !.queue = Append(s.queue, CountDataNext),
                      !.ret = M2Ret("scanComplete", "sigScanComplete",
                                    "advance")]

(* M2ScannerGUI.scanComplete: unless numScans is 1 the scan is saved, which *)
(* adds one to repetition_count; when the count equals numScans or is 0 the *)
(* count is reset and the module unlocked; otherwise the module is unlocked *)
(* and sigStartCounter is emitted.                                          *)
ScanComplete(s, numScans) ==
    LET rep == IF numScans # 1 THEN s.rep + 1 ELSE s.rep
    IN  IF numScans = rep \/ rep = 0 THEN
            [s EXCEPT !.gui = s.gui - 1, !.rep = 0, !.locked = FALSE,
                      !.ret = M2Ret("scanComplete", "sigScanComplete",
                                    "final")]
        ELSE
            [s EXCEPT !.gui = s.gui - 1, !.rep = rep, !.locked = FALSE,
                      !.queue = Append(s.queue,
                                       M2Event("startCount", "scanComplete")),
                      !.ret = M2Ret("scanComplete", "sigScanComplete",
                                    "advance")]

(* M2ScannerGUI.start_clicked: sigStopCounter when the module is locked;    *)
(* otherwise, when the wavelength range is valid, sigStartCounter.          *)
StartClicked(s, valid) ==
    IF s.locked THEN
        [s EXCEPT !.queue = Append(s.queue,
                                   M2Event("stopCount", "start_clicked")),
                  !.ret = M2Ret("start_clicked", "click", "stop")]
    ELSE IF ~valid THEN
        [s EXCEPT !.ret = M2Ret("start_clicked", "click", "invalid")]
    ELSE
        [s EXCEPT !.queue = Append(s.queue,
                                   M2Event("startCount", "start_clicked")),
                  !.ret = M2Ret("start_clicked", "click", "start")]

(* Queued slots are called by the thread's own event loop (m2Pump = -1) or  *)
(* by a processEvents() call of stop_query_loop, which happens only while   *)
(* stopRequest is still set.                                                *)
M2CanDispatch == m2Queue # <<>> /\ (m2Pump = -1 \/ m2StopRequest)

M2Frame == <<m2Pump, m2NumScans, m2Clicks, m2ScanParams, m2ScanInfo>>

(* The timer is active and its interval has passed: the timeout's queued    *)
(* call of check_laser_loop is posted.                                      *)
M2Timeout ==
    /\ m2Timer
    /\ Len(m2Queue) < MaxM2Queue
    /\ m2Queue' = Append(m2Queue, M2Event("check_laser_loop", "timeout"))
    /\ UNCHANGED <<m2Locked, m2StopRequested, m2StopRequest, m2Timer,
                   m2Counter, m2ScanActive, m2Fresh, m2Scans, m2GuiQueue,
                   m2RepCount,
                   m2Ret, M2Frame>>

check_laser_loop ==
    /\ M2CanDispatch /\ Head(m2Queue).slot = "check_laser_loop"
    /\ M2Store(CheckLaserLoop(M2Taken(M2State)))
    /\ UNCHANGED M2Frame

stopCount ==
    /\ M2CanDispatch /\ Head(m2Queue).slot = "stopCount"
    /\ M2Store(StopCount(M2Taken(M2State)))
    /\ UNCHANGED M2Frame

startCount ==
    /\ M2CanDispatch /\ Head(m2Queue).slot = "startCount"
    /\ M2Store(StartCount(M2Taken(M2State), Head(m2Queue).origin))
    /\ UNCHANGED M2Frame

(* count_loop_body is called. When the module is locked and stopRequest is  *)
(* not set it first calls stop_query_loop(): the timer is stopped,          *)
(* stopRequest set, and the processEvents() rounds begin. Otherwise it goes *)
(* straight on.                                                             *)
count_loop_body ==
    /\ M2CanDispatch /\ Head(m2Queue).slot = "count_loop_body"
    /\ IF m2Pump = -1 /\ m2Locked /\ ~m2StopRequest
       THEN /\ M2Store([M2Taken(M2State) EXCEPT
                            !.timer = FALSE, !.stopRequest = TRUE,
                            !.ret = M2Ret("stop_query_loop",
                                          "count_loop_body", "pumping")])
            /\ m2Pump' = 0
            /\ UNCHANGED <<m2NumScans, m2Clicks, m2ScanParams, m2ScanInfo>>
       ELSE /\ \E activity \in Activities, negative \in BOOLEAN :
                    M2Store(CountLoopBody(M2Taken(M2State), activity,
                                          negative))
            /\ UNCHANGED M2Frame

(* stop_query_loop: one round (processEvents() has returned, the sleep is   *)
(* over) ends. After the tenth round, or when stopRequest has been cleared, *)
(* stop_query_loop returns and count_loop_body goes on.                     *)
stop_query_loop ==
    /\ m2Pump >= 0
    /\ IF m2Pump + 1 < M2PumpCount /\ m2StopRequest
       THEN /\ m2Pump' = m2Pump + 1
            /\ UNCHANGED <<m2Locked, m2StopRequested, m2StopRequest, m2Timer,
                           m2Counter, m2ScanActive, m2Fresh, m2Scans,
                           m2Queue, m2GuiQueue, m2RepCount, m2Ret,
                           m2NumScans, m2Clicks, m2ScanParams, m2ScanInfo>>
       ELSE /\ m2Pump' = -1
            /\ \E activity \in Activities, negative \in BOOLEAN :
                    M2Store(CountLoopBody(M2State, activity, negative))
            /\ UNCHANGED <<m2NumScans, m2Clicks, m2ScanParams, m2ScanInfo>>

(* An iteration of the locked module that is past its stop_query_loop()     *)
(* call and its stop check, and in which the hardware read raises.          *)
count_loop_raises ==
    /\ m2Locked /\ ~m2StopRequested
    /\ \/ /\ M2CanDispatch /\ Head(m2Queue).slot = "count_loop_body"
          /\ m2Pump # -1 \/ m2StopRequest
          /\ M2Store(CountLoopRaise(M2Taken(M2State)))
          /\ UNCHANGED M2Frame
       \/ /\ m2Pump >= 0
          /\ ~(m2Pump + 1 < M2PumpCount /\ m2StopRequest)
          /\ m2Pump' = -1
          /\ M2Store(CountLoopRaise(M2State))
          /\ UNCHANGED <<m2NumScans, m2Clicks, m2ScanParams, m2ScanInfo>>

(* What the two wavelength spin boxes can show, in nm. *)
Wavelengths == {750, 760}

NoScanParams == [set |-> FALSE, start |-> 0, stop |-> 0]

(* A variant of start_clicked that saves the bounds before it checks them. *)
ScanParamsSavedFirst(locked, params, startWvln, stopWvln) ==
    IF locked THEN params
    ELSE [set |-> TRUE, start |-> startWvln, stop |-> stopWvln]

(* start_clicked, lines 366-373: scanParams is assigned only in the branch  *)
(* of the unlocked module and only after the startWvln >= stopWvln check    *)
(* has not returned.                                                        *)
ScanParamsAfterClick(locked, params, startWvln, stopWvln) ==
    IF locked \/ startWvln >= stopWvln THEN params
    ELSE [set |-> TRUE, start |-> startWvln, stop |-> stopWvln]

(* The user clicks the start/stop action; get_scan_info reads the spin      *)
(* boxes in the branch of the unlocked module.                              *)
start_clicked ==
    /\ m2Clicks < MaxM2Clicks
    /\ Len(m2Queue) < MaxM2Queue
    /\ m2Clicks' = m2Clicks + 1
    /\ \E startWvln \in Wavelengths, stopWvln \in Wavelengths :
        /\ M2Store(StartClicked(M2State, startWvln < stopWvln))
        /\ m2ScanInfo' = IF m2Locked THEN m2ScanInfo
                         ELSE [start |-> startWvln, stop |-> stopWvln]
        /\ m2ScanParams' = ScanParamsAfterClick(m2Locked, m2ScanParams,
                                                startWvln, stopWvln)
    /\ UNCHANGED <<m2Pump, m2NumScans>>

(* The queued sigScanComplete reaches the panel. *)
scanComplete ==
    /\ m2GuiQueue > 0
    /\ m2RepCount < MaxRepCount
    /\ m2Scans < MaxSessionScans
    /\ M2Store(ScanComplete(M2State, m2NumScans))
    /\ UNCHANGED M2Frame

(* The user clicks the save action: M2LaserLogic.save_spectrum_data adds    *)
(* one to repetition_count.                                                 *)
save_spectrum_data ==
    /\ m2RepCount < MaxRepCount
    /\ m2RepCount' = m2RepCount + 1
    /\ m2Ret' = M2Ret("save_spectrum_data", "click", "saved")
    /\ UNCHANGED <<m2Locked, m2StopRequested, m2StopRequest, m2Timer,
                   m2Counter, m2ScanActive, m2Fresh, m2Scans, m2Queue,
                   m2GuiQueue, M2Frame>>

M2Idle ==
    /\ m2Locked = FALSE
    /\ m2StopRequested = FALSE
    /\ m2StopRequest = FALSE
    /\ m2Timer = TRUE
    /\ m2Counter = FALSE
    /\ m2ScanActive = FALSE
    /\ m2Fresh = FALSE
    /\ m2Scans = 0
    /\ m2Queue = <<>>
    /\ m2GuiQueue = 0
    /\ m2RepCount = 0
    /\ m2Ret = M2Ret("none", "none", "none")
    /\ m2Pump = -1
    /\ m2NumScans = 1
    /\ m2Clicks = 0
    /\ m2ScanParams = NoScanParams
    /\ m2ScanInfo = [start |-> 0, stop |-> 0]

(* on_activate: both flags cleared, repetition_count 0, the timer started;  *)
(* numScans is what the spin box shows.                                     *)
M2Init ==
    /\ m2Locked = FALSE
    /\ m2StopRequested = FALSE
    /\ m2StopRequest = FALSE
    /\ m2Timer = TRUE
    /\ m2Counter = FALSE
    /\ m2ScanActive = FALSE
    /\ m2Fresh = FALSE
    /\ m2Scans = 0
    /\ m2Queue = <<>>
    /\ m2GuiQueue = 0
    /\ m2RepCount = 0
    /\ m2Ret = M2Ret("none", "none", "none")
    /\ m2Pump = -1
    /\ m2NumScans \in 1..MaxNumScans
    /\ m2Clicks = 0
    /\ m2ScanParams = NoScanParams
    /\ m2ScanInfo = [start |-> 0, stop |-> 0]

-----------------------------------------------------------------------------
(* ConfocalLogic (logic/confocal_logic.py).                                 *)
(* start_scanner and _scan_line are slots of the logic thread, called by    *)
(* its event loop from cfQueue (signal_start_scanning and                   *)
(* signal_scan_lines_next, both queued). start_scanning, stop_scanning,     *)
(* history_back and history_forward are plain methods, called by whoever    *)
(* holds the module, at any time. threadlock is held by stop_scanning and   *)
(* by the stop branch of _scan_line only: the rest of _scan_line runs       *)
(* without it, so _scan_line is two steps here, its stop check and what     *)
(* follows. A snapshot is known by the number of the scan it was taken of,  *)
(* counted from the activation (0: taken at activation or deactivation, or  *)
(* read back from the status variables); what it holds is not followed.     *)

(* Bounds *)
ImageRows == 2        \* np.size(self._image_vert_axis)
MaxScans == 15        \* scans of one activation that are followed

(* self.max_history_length when the status variables hold none. *)
max_history_length == 10

CfMin(a, b) == IF a < b THEN a ELSE b

CfRet(op, branch) ==
    [op |-> op, branch |-> branch, read |-> FALSE, row |-> -1,
     closed |-> FALSE, restored |-> -1, written |-> 0]

Flags == [xy : BOOLEAN, depth : BOOLEAN]

(* on_activate: history_{max-1} .. history_1 are appended where the status  *)
(* variables hold them, then history_0 or, without it, a fresh entry.       *)
RestoredHistory(status) ==
    IF status = 0 THEN <<0>>
    ELSE [j \in 1..CfMin(status, max_history_length) |-> 0]

(* on_deactivate: history_0, history_1, ... are written from the newest     *)
(* entry back; keys beyond them keep what they held.                        *)
StoredHistory(status, history) ==
    IF Len(history) > status THEN Len(history) ELSE status

(* A variant that drops the newest of the old entries instead. *)
AppendHistoryDropNewest(history, entry) ==
    LET h == Append(history, entry)
    IN  IF Len(h) > max_history_length
        THEN Append(SubSeq(history, 1, Len(history) - 1), entry)
        ELSE h

(* _scan_line, lines 686-688: the new entry is appended and, when the list  *)
(* has grown beyond max_history_length, the oldest entry is dropped.        *)
AppendHistory(history, entry) ==
    LET h == Append(history, entry)
    IN  IF Len(h) > max_history_length THEN Tail(h) ELSE h

CfHistoryFrame == <<cfActive, cfStatus, cfHistory, cfHistoryIndex, cfStops>>

CfScanFrame == <<cfLocked, cfStopRequested, cfScanCounter, cfZscan,
                 cfPermanent, cfContinuable, cfHwOpen, cfQueue, cfPc>>

(* on_activate: the history is rebuilt from the status variables, the last  *)
(* entry is restored into the module (restore() leaves _zscan True) and     *)
(* history_index points at it.                                              *)
on_activate ==
    /\ ~cfActive
    /\ cfActive' = TRUE
    /\ cfHistory' = RestoredHistory(cfStatus)
    /\ cfHistoryIndex' = Len(cfHistory') - 1
    /\ cfStops' = 0
    /\ cfZscan' = TRUE
    /\ IF cfStatus = 0
       THEN cfContinuable' = [xy |-> FALSE, depth |-> FALSE]
       ELSE cfContinuable' \in Flags
    /\ cfRet' = [CfRet("on_activate", "activated")
                    EXCEPT !.restored = cfHistory'[Len(cfHistory')]]
    /\ UNCHANGED <<cfStatus, cfLocked, cfStopRequested, cfScanCounter,
                   cfPermanent, cfHwOpen, cfQueue, cfPc>>

(* on_deactivate: a snapshot of the closing state is appended to the        *)
(* history and every entry is written to the status variables.              *)
on_deactivate ==
    /\ cfActive /\ ~cfLocked /\ cfQueue = <<>>
    /\ cfActive' = FALSE
    /\ cfHistory' = Append(cfHistory, 0)
    /\ cfStatus' = StoredHistory(cfStatus, cfHistory')
    /\ cfRet' = [CfRet("on_deactivate", "stored")
                    EXCEPT !.written = Len(cfHistory')]
    /\ UNCHANGED <<cfHistoryIndex, cfStops, CfScanFrame>>

(* start_scanning(zscan): the line counter is reset, the scan is marked     *)
(* continuable and signal_start_scanning is emitted.                        *)
start_scanning ==
    /\ cfActive /\ ~cfLocked /\ cfQueue = <<>>
    /\ cfStops < MaxScans
    /\ \E zscan \in BOOLEAN :
        /\ cfZscan' = zscan
        /\ cfContinuable' = IF zscan
                            THEN [cfContinuable EXCEPT !.depth = TRUE]
                            ELSE [cfContinuable EXCEPT !.xy = TRUE]
    /\ cfScanCounter' = 0
    /\ cfQueue' = Append(cfQueue, "start_scanner")
    /\ cfRet' = CfRet("start_scanning", "emitted")
    /\ UNCHANGED <<CfHistoryFrame, cfLocked, cfStopRequested, cfPermanent,
                   cfHwOpen, cfPc>>

(* The owner of the module sets or clears permanent_scan. *)
set_permanent_scan ==
    /\ cfActive
    /\ cfPermanent' = ~cfPermanent
    /\ cfRet' = CfRet("set_permanent_scan", "set")
    /\ UNCHANGED <<CfHistoryFrame, cfLocked, cfStopRequested, cfScanCounter,
                   cfZscan, cfContinuable, cfHwOpen, cfQueue, cfPc>>

(* stop_scanning: under threadlock, stopRequested is set when the module is *)
(* locked; when it is not locked the call changes nothing and returns 0.    *)
stop_scanning ==
    /\ cfActive
    /\ cfStopRequested' = (cfLocked \/ cfStopRequested)
    /\ cfRet' = CfRet("stop_scanning", IF cfLocked THEN "set" ELSE "ignored")
    /\ UNCHANGED <<CfHistoryFrame, cfLocked, cfScanCounter, cfZscan,
                   cfPermanent, cfContinuable, cfHwOpen, cfQueue, cfPc>>

SetupResults == {"ok", "image_failed", "clock_failed", "scanner_failed"}

(* start_scanner: module and device are locked, the image is initialised,   *)
(* clock and scanner are set up and signal_scan_lines_next is emitted; when *)
(* one of the three fails everything is undone and nothing is emitted.      *)
start_scanner ==
    /\ cfQueue # <<>> /\ Head(cfQueue) = "start_scanner"
    /\ cfPc = "idle"
    /\ \E setup \in SetupResults :
        IF setup = "ok"
        THEN /\ cfLocked' = TRUE
             /\ cfHwOpen' = TRUE
             /\ cfQueue' = Append(Tail(cfQueue), "_scan_line")
             /\ cfRet' = CfRet("start_scanner", "started")
        ELSE /\ cfLocked' = FALSE
             /\ cfHwOpen' = FALSE
             /\ cfQueue' = Tail(cfQueue)
             /\ cfRet' = CfRet("start_scanner", setup)
    /\ UNCHANGED <<CfHistoryFrame, cfStopRequested, cfScanCounter, cfZscan,
                   cfPermanent, cfContinuable, cfPc>>

(* _scan_line finds stopRequested set: under threadlock the scanner and its *)
(* clock are closed, the flag is cleared, the module unlocked, a snapshot   *)
(* appended to the history (the oldest entry dropped when there are more    *)
(* than max_history_length) and history_index set to the last entry.        *)
scan_line_stop ==
    /\ cfQueue # <<>> /\ Head(cfQueue) = "_scan_line"
    /\ cfPc = "idle"
    /\ cfStopRequested
    /\ cfQueue' = Tail(cfQueue)
    /\ cfHwOpen' = FALSE
    /\ cfStopRequested' = FALSE
    /\ cfLocked' = FALSE
    /\ cfStops' = cfStops + 1
    /\ cfHistory' = AppendHistory(cfHistory, cfStops')
    /\ cfHistoryIndex' = Len(cfHistory') - 1
    /\ cfRet' = [CfRet("_scan_line", "stopped") EXCEPT !.closed = TRUE]
    /\ UNCHANGED <<cfActive, cfStatus, cfScanCounter, cfZscan, cfPermanent,
                   cfContinuable, cfPc>>

(* _scan_line finds stopRequested clear and goes on, without threadlock. *)
scan_line_check ==
    /\ cfQueue # <<>> /\ Head(cfQueue) = "_scan_line"
    /\ cfPc = "idle"
    /\ ~cfStopRequested
    /\ cfQueue' = Tail(cfQueue)
    /\ cfPc' = "scanning"
    /\ cfRet' = CfRet("_scan_line", "checked")
    /\ UNCHANGED <<CfHistoryFrame, cfLocked, cfStopRequested, cfScanCounter,
                   cfZscan, cfPermanent, cfContinuable, cfHwOpen>>

LineResults == {"ok", "fatal", "raised"}

(* A variant that at the end of the image neither stops nor wraps. *)
ScanLineRunsOn(result) ==
    LET ret(branch) == [CfRet("_scan_line", branch) EXCEPT !.read = TRUE]
        next == IF cfScanCounter < ImageRows THEN cfScanCounter + 1
                ELSE cfScanCounter
    IN  /\ cfQueue' = Append(cfQueue, "_scan_line")
        /\ IF result = "ok" THEN
               /\ cfScanCounter' = next
               /\ cfRet' = [ret("scanned") EXCEPT !.row = cfScanCounter]
               /\ UNCHANGED <<cfStopRequested, cfContinuable>>
           ELSE
               /\ cfStopRequested' = TRUE
               /\ cfRet' = ret(result)
               /\ UNCHANGED <<cfScanCounter, cfContinuable>>

(* _scan_line past its stop check (lines 692-782), for what the scan_line   *)
(* calls of the device do:                                                  *)
(*   - one of them returns a vector starting with -1: stopRequested is set  *)
(*     and signal_scan_lines_next emitted;                                  *)
(*   - one of them raises: stop_scanning() and signal_scan_lines_next;      *)
(*   - otherwise the row is written into the image and the line counter     *)
(*     advanced; at the end of the image, stop_scanning() and the scan's    *)
(*     continuable flag cleared, or with permanent_scan the counter set     *)
(*     back to 0; signal_scan_lines_next is emitted.                        *)
ScanLine(result) ==
    LET ret(branch) == [CfRet("_scan_line", branch) EXCEPT !.read = TRUE]
        next == cfScanCounter + 1
    IN  /\ cfQueue' = Append(cfQueue, "_scan_line")
        /\ IF result = "fatal" THEN
               /\ cfStopRequested' = TRUE
               /\ cfRet' = ret("fatal")
               /\ UNCHANGED <<cfScanCounter, cfContinuable>>
           ELSE IF result = "raised" THEN
               /\ cfStopRequested' = (cfLocked \/ cfStopRequested)
               /\ cfRet' = ret("raised")
               /\ UNCHANGED <<cfScanCounter, cfContinuable>>
           ELSE IF next < ImageRows THEN
               /\ cfScanCounter' = next
               /\ cfRet' = [ret("scanned") EXCEPT !.row = cfScanCounter]
               /\ UNCHANGED <<cfStopRequested, cfContinuable>>
           ELSE IF ~cfPermanent THEN
               /\ cfScanCounter' = next
               /\ cfStopRequested' = (cfLocked \/ cfStopRequested)
               /\ cfContinuable' =
                       IF cfZscan
                       THEN [cfContinuable EXCEPT !.depth = FALSE]
                       ELSE [cfContinuable EXCEPT !.xy = FALSE]
               /\ cfRet' = [ret("finished") EXCEPT !.row = cfScanCounter]
           ELSE
               /\ cfScanCounter' = 0
               /\ cfRet' = [ret("wrapped") EXCEPT !.row = cfScanCounter]
               /\ UNCHANGED <<cfStopRequested, cfContinuable>>

scan_line_body ==
    /\ cfPc = "scanning"
    /\ cfPc' = "idle"
    /\ \E result \in LineResults : ScanLine(result)
    /\ UNCHANGED <<CfHistoryFrame, cfLocked, cfZscan, cfPermanent, cfHwOpen>>

(* A variant that restores the entry the index pointed at before it moved. *)
HistoryStepRestoresOld(step) ==
    IF (step = -1 /\ cfHistoryIndex > 0)
         \/ (step = 1 /\ cfHistoryIndex < Len(cfHistory) - 1)
    THEN /\ cfHistoryIndex' = cfHistoryIndex + step
         /\ cfZscan' = TRUE
         /\ cfContinuable' \in Flags
         /\ cfRet' = [CfRet(IF step = 1 THEN "history_forward"
                            ELSE "history_back", "moved")
                        EXCEPT !.restored = cfHistory[cfHistoryIndex + 1]]
    ELSE /\ cfRet' = CfRet(IF step = 1 THEN "history_forward"
                           ELSE "history_back", "ignored")
         /\ UNCHANGED <<cfHistoryIndex, cfZscan, cfContinuable>>

(* history_back (step = -1) and history_forward (step = 1): when the index  *)
(* can move it moves, and the entry it then points at is restored into the  *)
(* module; restore() writes the entry's continuable flags and leaves _zscan *)
(* True.                                                                    *)
HistoryStep(step) ==
    IF (step = -1 /\ cfHistoryIndex > 0)
         \/ (step = 1 /\ cfHistoryIndex < Len(cfHistory) - 1)
    THEN /\ cfHistoryIndex' = cfHistoryIndex + step
         /\ cfZscan' = TRUE
         /\ cfContinuable' \in Flags
         /\ cfRet' = [CfRet(IF step = 1 THEN "history_forward"
                            ELSE "history_back", "moved")
                        EXCEPT !.restored = cfHistory[cfHistoryIndex' + 1]]
    ELSE /\ cfRet' = CfRet(IF step = 1 THEN "history_forward"
                           ELSE "history_back", "ignored")
         /\ UNCHANGED <<cfHistoryIndex, cfZscan, cfContinuable>>

CfStepFrame == <<cfActive, cfStatus, cfHistory, cfStops, cfLocked, cfStopRequested, cfScanCounter,
                 cfPermanent, cfHwOpen, cfQueue, cfPc>>

history_back ==
    /\ cfActive
    /\ HistoryStep(-1)
    /\ UNCHANGED CfStepFrame

history_forward ==
    /\ cfActive
    /\ HistoryStep(1)
    /\ UNCHANGED CfStepFrame

(* __init__: nothing is activated yet. *)
CfIdle ==
    /\ cfActive = FALSE
    /\ cfStatus = 0
    /\ cfHistory = <<>>
    /\ cfHistoryIndex = 0
    /\ cfStops = 0
    /\ cfLocked = FALSE
    /\ cfStopRequested = FALSE
    /\ cfScanCounter = 0
    /\ cfZscan = FALSE
    /\ cfPermanent = FALSE
    /\ cfContinuable = [xy |-> FALSE, depth |-> FALSE]
    /\ cfHwOpen = FALSE
    /\ cfQueue = <<>>
    /\ cfPc = "idle"
    /\ cfRet = CfRet("none", "none")

CfInit == CfIdle

-----------------------------------------------------------------------------
(* One terascan session of M2LaserLogic, statement by statement: what       *)
(* count_loop_body and _process_data_continous do to countdata in the logic *)
(* thread while M2ScannerGUI.update_data reads it in the GUI thread.        *)
(* update_data is connected to sigCounterUpdated across threads, so it is   *)
(* queued and runs whenever the GUI thread gets to it; it takes no lock.    *)
(* Sample k is written as wavelength k and count k. The session goes on     *)
(* until the laser reports the scan complete.                               *)

(* Bounds *)
CountLength == 2          \* columns of countdata (self._count_length)
MaxSamples == 3           \* iterations that are followed
MaxPendingUpdates == 2    \* update_data calls the GUI thread keeps queued

Column(k) == [wavelength |-> k, count |-> k]

(* np.zeros([2, _count_length]). *)
EmptyCountdata == [c \in 1..CountLength |-> Column(0)]

(* np.roll(countdata, -1, axis=1): every column moves one place to the      *)
(* left, the first one to the end.                                          *)
Roll(data) == Append(Tail(data), Head(data))

(* update_data: the columns before the first one that is not all zero are   *)
(* left out (np.argmax(~mask) is 0 when every column is zero).              *)
Unmasked(data) ==
    LET nonzero == {c \in DOMAIN data : data[c] # Column(0)}
        start == IF nonzero = {} THEN 1
                 ELSE CHOOSE c \in nonzero : \A d \in nonzero : c <= d
    IN  SubSeq(data, start, Len(data))

Updates == {"none", "stitching", "scanning"}

(* Lines 323-335: without a usable update the state is 'stitching'; with    *)
(* scandone set it is 'complete' whatever the update says.                  *)
Classify(update, scandone) ==
    IF scandone THEN "complete"
    ELSE IF update = "none" THEN "stitching"
    ELSE update

MbFrame == <<mbGuiQueue, mbShown>>

(* A variant of the stitching branch that records the sample it read. *)
StitchingRecords ==
    /\ mbCountdata' = Roll([mbCountdata EXCEPT ![1] = Column(mbSample')])
    /\ mbSmoothed' = mbSmoothed + 1
    /\ mbToken' = TRUE
    /\ mbPc' = "idle"
    /\ mbLog' = <<"get_counter", "sigUpdate", "sigCountDataNext">>

(* Lines 339-347: sigUpdate, sigCountDataNext, return. *)
Stitching ==
    /\ UNCHANGED <<mbCountdata, mbSmoothed>>
    /\ mbToken' = TRUE
    /\ mbPc' = "idle"
    /\ mbLog' = <<"get_counter", "sigUpdate", "sigCountDataNext">>

(* Lines 350-358: sigUpdate, the counter is closed, sigScanComplete; the    *)
(* loop is not re-armed.                                                    *)
Complete ==
    /\ UNCHANGED <<mbCountdata, mbSmoothed>>
    /\ mbToken' = FALSE
    /\ mbPc' = "idle"
    /\ mbLog' = <<"get_counter", "sigUpdate", "sigScanComplete">>

(* The event loop calls count_loop_body: under threadlock the sample is     *)
(* read with get_counter, the update fetched and classified.                *)
count_loop_read ==
    /\ mbToken /\ mbPc = "idle"
    /\ mbSample < MaxSamples
    /\ mbGuiQueue < MaxPendingUpdates
    /\ mbSample' = mbSample + 1
    /\ \E update \in Updates, scandone \in BOOLEAN :
        /\ mbUpdate' = [update |-> update, scandone |-> scandone]
        /\ LET state == Classify(update, scandone)
           IN  IF state = "stitching" THEN Stitching
               ELSE IF state = "complete" THEN Complete
               ELSE /\ mbToken' = FALSE
                    /\ mbPc' = "read"
                    /\ mbLog' = <<"get_counter">>
                    /\ UNCHANGED <<mbCountdata, mbSmoothed>>
    /\ UNCHANGED MbFrame

(* _process_data_continous, line 401. *)
write_wavelength ==
    /\ mbPc = "read"
    /\ mbPc' = "wavelength"
    /\ mbCountdata' = [mbCountdata EXCEPT ![1].wavelength = mbSample]
    /\ UNCHANGED <<mbToken, mbSample, mbUpdate, mbSmoothed, mbLog, MbFrame>>

(* _process_data_continous, line 402. *)
write_count ==
    /\ mbPc = "wavelength"
    /\ mbPc' = "count"
    /\ mbCountdata' = [mbCountdata EXCEPT ![1].count = mbSample]
    /\ UNCHANGED <<mbToken, mbSample, mbUpdate, mbSmoothed, mbLog, MbFrame>>

(* _process_data_continous, lines 406-413: both buffers are rolled and the  *)
(* end of countdata_smoothed is rewritten; the buffer update is complete.   *)
roll_buffers ==
    /\ mbPc = "count"
    /\ mbPc' = "processed"
    /\ mbCountdata' = Roll(mbCountdata)
    /\ mbSmoothed' = mbSmoothed + 1
    /\ mbLog' = Append(mbLog, "countdata")
    /\ UNCHANGED <<mbToken, mbSample, mbUpdate, MbFrame>>

(* Line 381, threadlock released: sigCounterUpdated queues update_data. *)
emit_sigCounterUpdated ==
    /\ mbPc = "processed"
    /\ mbPc' = "notified"
    /\ mbGuiQueue' = mbGuiQueue + 1
    /\ mbLog' = Append(mbLog, "sigCounterUpdated")
    /\ UNCHANGED <<mbToken, mbSample, mbUpdate, mbCountdata, mbSmoothed,
                   mbShown>>

(* Line 382: sigCountDataNext queues the next count_loop_body. *)
emit_sigCountDataNext ==
    /\ mbPc = "notified"
    /\ mbPc' = "rearmed"
    /\ mbToken' = TRUE
    /\ mbLog' = Append(mbLog, "sigCountDataNext")
    /\ UNCHANGED <<mbSample, mbUpdate, mbCountdata, mbSmoothed, MbFrame>>

(* Line 387: sigUpdate; count_loop_body returns. *)
emit_sigUpdate ==
    /\ mbPc = "rearmed"
    /\ mbPc' = "idle"
    /\ mbLog' = Append(mbLog, "sigUpdate")
    /\ UNCHANGED <<mbToken, mbSample, mbUpdate, mbCountdata, mbSmoothed,
                   MbFrame>>

(* The GUI thread runs a queued update_data: it reads the logic's countdata *)
(* as it is now and plots what is left after the leading zeros.             *)
update_data ==
    /\ mbGuiQueue > 0
    /\ mbGuiQueue' = mbGuiQueue - 1
    /\ mbShown' = Unmasked(mbCountdata)
    /\ UNCHANGED <<mbToken, mbPc, mbSample, mbUpdate, mbCountdata,
                   mbSmoothed, mbLog>>

(* No session. *)
MbIdle ==
    /\ mbToken = FALSE
    /\ mbPc = "idle"
    /\ mbSample = 0
    /\ mbUpdate = [update |-> "none", scandone |-> FALSE]
    /\ mbCountdata = EmptyCountdata
    /\ mbSmoothed = 0
    /\ mbGuiQueue = 0
    /\ mbShown = <<>>
    /\ mbLog = <<>>

(* startCount has cleared the buffers and emitted sigCountDataNext. *)
MbInit ==
    /\ mbToken = TRUE
    /\ mbPc = "idle"
    /\ mbSample = 0
    /\ mbUpdate = [update |-> "none", scandone |-> FALSE]
    /\ mbCountdata = EmptyCountdata
    /\ mbSmoothed = 0
    /\ mbGuiQueue = 0
    /\ mbShown = <<>>
    /\ mbLog = <<>>

-----------------------------------------------------------------------------
(* ConfocalLogic.initialize_image (logic/confocal_logic.py), as a function  *)
(* of the image ranges, the resolutions and _zscan. Ranges are whole        *)
(* numbers of one length unit. np.linspace(a, b, n) has n samples; an axis  *)
(* is known by its number of samples.                                       *)

(* Bounds *)
MaxCoord == 10        \* largest range end
MaxRun == 16385      \* consecutive _build_message calls followed from activation
RateMargin == 1      \* rates tried on each side of every ladder member, in kHz/s
LengthMargin == 1    \* sample counts tried on each side of every length limit
OdLength == 3        \* columns of the buffer handed to order_data
MaxOrderCalls == 2   \* order_data calls followed on one buffer
MaxClockFrequency == 40 \* largest small clock frequency tried, in kHz
MaxTimerQueue == 3 \* most sig_handle_timer emissions waiting for the hardware thread
MaxRecorded == 8 \* most samples recorded in one scan
MaxCounts == 3 \* largest count of one sample
MaxPending == 3 \* most repeat_sig emissions waiting in the event queue
MaxSamplesNumber == 2 \* largest _monitor_samples_number
MaxSteps == 2 \* most steps of a sequence_parameter_list
MaxTracks == 2 \* most active analog channels
MaxResolution == 100  \* largest xy_resolution

IiMax(a, b) == IF a > b THEN a ELSE b

(* int(a / b) for a >= 0, b > 0: the quotient cut off at the point. *)
IntDiv(a, b) == a \div b

(* round(a / b) for a >= 0, b > 0: to the nearest whole number, a half to   *)
(* the even neighbour.                                                      *)
RoundDiv(a, b) ==
    LET q == a \div b
        r == a % b
    IN  IF 2 * r < b THEN q
        ELSE IF 2 * r > b THEN q + 1
        ELSE IF q % 2 = 0 THEN q ELSE q + 1

(* A variant of the shorter axis that rounds. *)
ShortAxisSamplesRounded(resolution, short, long) ==
    IiMax(RoundDiv(resolution * short, long), 2)

(* Lines 485 and 488: max(int(xy_resolution * short / long), 2). *)
ShortAxisSamples(resolution, short, long) ==
    IiMax(IntDiv(resolution * short, long), 2)

IiOut(ret, nx, ny, nz) == [ret |-> ret, X |-> nx, Y |-> ny, Z |-> nz]

(* initialize_image for an xy scan (lines 448-459, 475-488, 520-528): -1    *)
(* when a range ends before it starts; the division raises when both        *)
(* ranges are empty. The return value is written as a string.               *)
InitializeImageXY(a) ==
    LET dx == a.x2 - a.x1
        dy == a.y2 - a.y1
    IN  IF a.x2 < a.x1 \/ a.y2 < a.y1 THEN IiOut("-1", 0, 0, 0)
        ELSE IF dx >= dy THEN
            IF dx = 0 THEN IiOut("ZeroDivisionError", 0, 0, 0)
            ELSE IiOut("0", IiMax(a.xy_resolution, 2),
                       ShortAxisSamples(a.xy_resolution, dy, dx), 0)
        ELSE IiOut("0", ShortAxisSamples(a.xy_resolution, dx, dy),
                   IiMax(a.xy_resolution, 2), 0)

(* initialize_image for a depth scan (lines 448-473): _X gets               *)
(* xy_resolution samples, _Z max(z_resolution, 2); _Y is not rebuilt.       *)
InitializeImageDepth(a) ==
    IF a.x2 < a.x1 \/ a.z2 < a.z1 THEN IiOut("-1", 0, 0, 0)
    ELSE IiOut("0", a.xy_resolution, 0, IiMax(a.z_resolution, 2))

IiStarts == {0, 1}
IiEnds == 0..MaxCoord
IiResolutions == 1..MaxResolution
IiDepthResolutions == {1, 2, 50}

NoImage == [zscan |-> FALSE, x1 |-> 0, x2 |-> 0, y1 |-> 0, y2 |-> 0,
            z1 |-> 0, z2 |-> 0, xy_resolution |-> 0, z_resolution |-> 0]

initialize_image_xy ==
    /\ iiOut.ret = "none"
    /\ \E x1 \in IiStarts, x2 \in IiEnds, y1 \in IiStarts, y2 \in IiEnds,
          res \in IiResolutions :
        /\ iiArgs' = [NoImage EXCEPT !.x1 = x1, !.x2 = x2, !.y1 = y1,
                                     !.y2 = y2, !.xy_resolution = res]
        /\ iiOut' = InitializeImageXY(iiArgs')

initialize_image_depth ==
    /\ iiOut.ret = "none"
    /\ \E x1 \in IiStarts, x2 \in IiEnds, z1 \in IiStarts, z2 \in IiStarts,
          res \in IiResolutions, zres \in IiDepthResolutions :
        /\ iiArgs' = [NoImage EXCEPT !.zscan = TRUE, !.x1 = x1, !.x2 = x2,
                                     !.z1 = z1, !.z2 = z2,
                                     !.xy_resolution = res,
                                     !.z_resolution = zres]
        /\ iiOut' = InitializeImageDepth(iiArgs')

(* No image has been initialised. *)
IiIdle ==
    /\ iiArgs = NoImage
    /\ iiOut = IiOut("none", 0, 0, 0)

IiInit == IiIdle


-----------------------------------------------------------------------------
(* M2 laser driver (hardware/laser/M2_laser.py): the transmission id of the *)
(* JSON envelope.  on_activate assigns 1 and then connect_laser sends       *)
(* start_link; every send builds its message with _build_message.           *)

IdModulus == 16383

(* A variant that wraps with the remainder alone. *)
NextIdZeroBased(id) == (id + 1) % IdModulus

(* line 923: self.transmission_id % 16383 + 1 *)
NextId(id) == (id % IdModulus) + 1

NoMessage == [built |-> FALSE, transmission_id |-> 0, given |-> FALSE]

(* Values a caller passes as the optional transmission_id. *)
ExplicitIds == {-1, 0, 1, IdModulus, IdModulus + 1}

(* _build_message(op, params, transmission_id): the id it stores and emits. *)
BuildId(given, tid) == IF given THEN tid ELSE NextId(drvId)

BuildMessage(given, tid) ==
    /\ drvId' = BuildId(given, tid)
    /\ drvMsg' = [built |-> TRUE, transmission_id |-> drvId', given |-> given]

(* on_activate: the id is set to 1; connect_laser either fails to open the  *)
(* socket (nothing is sent) or sends start_link through send().             *)
drv_on_activate ==
    \E connected \in BOOLEAN :
        /\ drvActivated' = TRUE
        /\ IF connected
              THEN /\ drvId' = NextId(1)
                   /\ drvMsg' = [built |-> TRUE, transmission_id |-> drvId',
                                 given |-> FALSE]
                   /\ drvRun' = 1
              ELSE /\ drvId' = 1
                   /\ drvRun' = 0
                   /\ UNCHANGED drvMsg

(* send(op, parameters, transmission_id) / _build_message called directly. *)
build_message ==
    \E given \in BOOLEAN, tid \in ExplicitIds :
        /\ drvActivated
        /\ given \/ drvRun < MaxRun
        /\ BuildMessage(given, tid)
        /\ drvRun' = IF given \/ drvRun < 0 THEN -1 ELSE drvRun + 1
        /\ UNCHANGED drvActivated

DrvIdle ==
    /\ drvActivated = FALSE
    /\ drvId = 0
    /\ drvMsg = NoMessage
    /\ drvRun = -1

DrvInit == DrvIdle


-----------------------------------------------------------------------------
(* M2 laser driver: _trunc_terascan_rate.  Rates are written in kHz/s       *)
(* (every ladder member is a whole number of kHz/s), so 50 is 50E3 Hz/s and *)
(* 100000000 is 100E9 Hz/s.                                                 *)

_terascan_rates ==
    <<50, 100, 200, 500, 1000, 2000, 5000, 10000, 20000, 50000, 100000,
      200000, 500000, 1000000, 2000000, 5000000, 10000000, 15000000,
      20000000, 50000000, 100000000>>

Ladder == {_terascan_rates[i] : i \in 1..Len(_terascan_rates)}

(* for tr in self._terascan_rates[::-1]: if rate >= tr: return tr *)
RECURSIVE TruncFrom(_, _)
TruncFrom(rate, i) ==
    IF i = 0 THEN _terascan_rates[1]
    ELSE IF rate >= _terascan_rates[i] THEN _terascan_rates[i]
    ELSE TruncFrom(rate, i - 1)

(* A variant that walks the ladder upwards and returns the first member     *)
(* that is not below the rate.                                              *)
RECURSIVE CeilFrom(_, _)
CeilFrom(rate, i) ==
    IF i > Len(_terascan_rates) THEN _terascan_rates[Len(_terascan_rates)]
    ELSE IF rate <= _terascan_rates[i] THEN _terascan_rates[i]
    ELSE CeilFrom(rate, i + 1)

_ceil_terascan_rate(rate) == CeilFrom(rate, 1)

_trunc_terascan_rate(rate) == TruncFrom(rate, Len(_terascan_rates))

(* Rates tried: around every ladder member, and the examples 1E3, 7E9 and   *)
(* 150E9 Hz/s.                                                              *)
TrRates ==
    {v + d : v \in Ladder, d \in (0 - RateMargin)..RateMargin}
        \cup {1, 7000000, 150000000}

trunc_terascan_rate ==
    /\ trOut = 0
    /\ trOut' = _trunc_terascan_rate(trRate)
    /\ UNCHANGED trRate

TrIdle ==
    /\ trRate = 1
    /\ trOut = 0

TrInit ==
    /\ trRate \in TrRates
    /\ trOut = 0


-----------------------------------------------------------------------------
(* M2 laser driver: stop_all_operation(repeated), one pass of its           *)
(* while-True loop in four steps.  The attributes use_websocket,            *)
(* get_full_web_status, _as_web_status, query and the name M2Error are      *)
(* assigned nowhere in the driver, so each step that reads one either finds *)
(* it (provided from outside) or raises.                                    *)

MaxAttempts == 10

SaRet(kind, value, line) == [kind |-> kind, value |-> value, line |-> line]

SaRaise(line) ==
    /\ saPc' = "raised"
    /\ saRet' = SaRet("raised", FALSE, line)
    /\ UNCHANGED <<saRepeated, saAttempts, saOperating>>

stop_all_operation ==
    /\ saPc \in {"idle", "returned", "raised"}
    /\ \E repeated \in BOOLEAN : saRepeated' = repeated
    /\ saAttempts' = 0
    /\ saOperating' = FALSE
    /\ saPc' = "probe"
    /\ saRet' = SaRet("running", FALSE, 0)

(* lines 872-873: operating = False; the websocket short cut. *)
sa_probe ==
    /\ saPc = "probe"
    /\ \E use_websocket \in {"unset", "off", "on"}, scan_status_0 \in BOOLEAN :
        IF use_websocket = "unset"
           THEN SaRaise(873)
           ELSE /\ saOperating' = FALSE
                /\ saPc' = IF use_websocket = "on" /\ scan_status_0
                              THEN "tuning" ELSE "scans"
                /\ UNCHANGED <<saRepeated, saAttempts, saRet>>

(* lines 874-898: every terascan and fast-scan type is polled and, if not   *)
(* stopped, stopped again (with the web stop after 3 attempts and the       *)
(* restart-then-stop after 6).                                              *)
sa_scans ==
    /\ saPc = "scans"
    /\ \E outcome \in {"raised", "stopped", "operating"} :
        IF outcome = "raised"
           THEN SaRaise(875)
           ELSE /\ saOperating' = (outcome = "operating")
                /\ saPc' = "tuning"
                /\ UNCHANGED <<saRepeated, saAttempts, saRet>>

(* lines 899-904: fine and table tuning. *)
sa_tuning ==
    /\ saPc = "tuning"
    /\ \E tuning \in BOOLEAN, table \in BOOLEAN :
        saOperating' = (saOperating \/ tuning \/ table)
    /\ saPc' = "check"
    /\ UNCHANGED <<saRepeated, saAttempts, saRet>>

(* lines 905-912: break and return not operating, or count the attempt;     *)
(* past 10 attempts ctd.passed() is evaluated, and ctd is self.timeout, a   *)
(* number.                                                                  *)
SaCheck ==
    IF (~saRepeated) \/ (~saOperating)
       THEN /\ saPc' = "returned"
            /\ saRet' = SaRet("returned", ~saOperating, 912)
            /\ UNCHANGED <<saRepeated, saAttempts, saOperating>>
       ELSE /\ saAttempts' = saAttempts + 1
            /\ IF saAttempts' > MaxAttempts
                  THEN /\ saPc' = "raised"
                       /\ saRet' = SaRet("raised", FALSE, 909)
                  ELSE /\ saPc' = "probe"
                       /\ UNCHANGED saRet
            /\ UNCHANGED <<saRepeated, saOperating>>

sa_check ==
    /\ saPc = "check"
    /\ SaCheck

SaIdle ==
    /\ saPc = "idle"
    /\ saRepeated = FALSE
    /\ saAttempts = 0
    /\ saOperating = FALSE
    /\ saRet = SaRet("none", FALSE, 0)

SaInit == SaIdle


-----------------------------------------------------------------------------
(* AWG7k.write_waveform (hardware/awg/tektronix_awg7k.py).  analog_samples  *)
(* is given by the channel numbers of its keys in dictionary order; a       *)
(* waveform name name_chN is given by N.  The device answers *OPC? and      *)
(* lists an imported waveform, so the two waits of the loop end.            *)

waveform_length_min == 1
waveform_length_max == 32400000
waveform_length_max_01 == 64800000

(* get_constraints, lines 331-334 *)
WaveformLengthMax(opt01) ==
    IF opt01 THEN waveform_length_max_01 ELSE waveform_length_max

(* A variant that checks the upper limit only. *)
LengthRejectedAboveOnly(total, opt01) == total > WaveformLengthMax(opt01)

(* lines 1257-1268 *)
LengthRejected(total, opt01) ==
    \/ total < waveform_length_min
    \/ total > WaveformLengthMax(opt01)

WwOut(ret, names) == [ret |-> ret, names |-> names]

WwNoCall == [called |-> FALSE, analog |-> <<>>, total |-> 0, opt01 |-> FALSE]

WriteWaveform(analog, total, opt01) ==
    IF Len(analog) = 0 \/ LengthRejected(total, opt01)
       THEN /\ wwOut' = WwOut(-1, <<>>)
            /\ wwFiles' = <<>>
            /\ wwSent' = <<>>
            /\ wwImported' = <<>>
       ELSE /\ wwOut' = WwOut(total, analog)
            /\ wwFiles' = analog
            /\ wwSent' = analog
            /\ wwImported' = analog

AnalogSamples == {<<>>, <<1>>, <<2>>, <<1, 2>>, <<2, 1>>}

WwTotals ==
    {c + d : c \in {0, waveform_length_max, waveform_length_max_01},
             d \in (0 - LengthMargin)..(LengthMargin + 1)}

write_waveform ==
    /\ ~wwArgs.called
    /\ \E analog \in AnalogSamples, total \in WwTotals, opt01 \in BOOLEAN :
        /\ wwArgs' = [called |-> TRUE, analog |-> analog, total |-> total,
                      opt01 |-> opt01]
        /\ WriteWaveform(analog, total, opt01)

WwIdle ==
    /\ wwArgs = WwNoCall
    /\ wwOut = WwOut(0, <<>>)
    /\ wwFiles = <<>>
    /\ wwSent = <<>>
    /\ wwImported = <<>>

WwInit == WwIdle


-----------------------------------------------------------------------------
(* M2LaserLogic.order_data (logic/m2_laser_logic.py): the columns of        *)
(* countdata are reordered by temp[:, 0].argsort().  argsort is called with *)
(* its default kind, quicksort, which does not promise to keep the order of *)
(* equal keys: every index order that sorts the wavelengths is a possible   *)
(* result.                                                                  *)

OdWavelengths == {700, 701}
OdCounts == {0, 1}
OdColumns == {<<w, c>> : w \in OdWavelengths, c \in OdCounts}

OdIndices(buffer) == 1..Len(buffer)

IndexOrders(n) ==
    {p \in [1..n -> 1..n] : \A i, j \in 1..n : i # j => p[i] # p[j]}

Ascending(buffer) ==
    \A i, j \in OdIndices(buffer) : i < j => buffer[i][1] <= buffer[j][1]

Reordered(buffer, p) == [i \in OdIndices(buffer) |-> buffer[p[i]]]

(* temp[:, 0].argsort(): an index order under which the keys ascend *)
ArgSorts(buffer) ==
    {p \in IndexOrders(Len(buffer)) : Ascending(Reordered(buffer, p))}

order_data ==
    /\ odCalls < MaxOrderCalls
    /\ \E p \in ArgSorts(odCountdata) :
        odCountdata' = Reordered(odCountdata, p)
    /\ odCalls' = odCalls + 1

OdIdle ==
    /\ odCountdata = [i \in 1..OdLength |-> <<700, 0>>]
    /\ odCalls = 0

OdInit ==
    /\ odCountdata \in [1..OdLength -> OdColumns]
    /\ odCalls = 0


-----------------------------------------------------------------------------
(* SITimeTaggerSlowCounter.set_up_clock                                     *)
(* (hardware/swabian_instruments/si_time_tagger_slow_counter.py).           *)
(* Frequencies are written in kHz, so that 1e12 / clock_frequency is        *)
(* 1000000000 / kHz and the limit 10e9 Hz is 10000000 kHz; a whole number   *)
(* of kHz is below the lower limit of 1 Hz exactly when it is not positive. *)

max_count_frequency == 10000000
PicosecondsPerKHzPeriod == 1000000000

ScClock(frequency, ret, bin_width) ==
    [frequency |-> frequency, ret |-> ret, bin_width |-> bin_width]

(* lines 139-148 *)
ClockFrequencyRejected(frequency) ==
    frequency <= 0 \/ frequency > max_count_frequency

(* A variant of the bin width that rounds to the nearest picosecond. *)
BinWidthRounded(frequency) == RoundDiv(PicosecondsPerKHzPeriod, frequency)

(* line 151: int(1e12/clock_frequency) *)
BinWidth(frequency) == IntDiv(PicosecondsPerKHzPeriod, frequency)

(* set_up_clock(clock_frequency): -1 and nothing stored outside the limits, *)
(* else the bin width is stored and 0 returned.                             *)
SetUpClock(clock, frequency) ==
    IF ClockFrequencyRejected(frequency)
       THEN ScClock(frequency, -1, clock.bin_width)
       ELSE ScClock(frequency, 0, BinWidth(frequency))

ClockFrequencies ==
    (0 - 1)..MaxClockFrequency
        \cup {max_count_frequency - 1, max_count_frequency,
              max_count_frequency + 1}

set_up_clock ==
    \E frequency \in ClockFrequencies :
        scClock' = SetUpClock(scClock, frequency)

(* __init__: _bin_width = 0 *)
ScIdle == scClock = ScClock(0, 1, 0)

ScInit == ScIdle


-----------------------------------------------------------------------------
(* M2ScannerWavemeter and HardwarePull (hardware/m2scanner_wavemeter.py).   *)
(* sig_handle_timer is connected to HardwarePull.handle_timer, which lives  *)
(* on the hardware thread: an emission waits in that thread's queue.  A     *)
(* kind is a sequence of characters, so that Python's substring test        *)
(* `kind in "air"` is computed as it is.                                    *)

Air == <<"a", "i", "r">>
Vac == <<"v", "a", "c">>

(* Python: x in y for strings *)
IsSubstring(x, y) ==
    \E i \in 0..(Len(y) - Len(x)) : SubSeq(y, i + 1, i + Len(x)) = x

(* lines 281-294 *)
GetCurrentWavelength(kind) ==
    IF IsSubstring(kind, Air) THEN "ConvertUnit"
    ELSE IF IsSubstring(kind, Vac) THEN "cached"
    ELSE "-2.0"

WmKinds ==
    {Air, Vac, <<>>, <<"a">>, <<"a", "i">>, <<"i", "r">>, <<"v">>,
     <<"v", "a">>, <<"a", "c">>, <<"c">>, <<"x">>, <<"A", "I", "R">>,
     <<"v", "a", "c", "u", "u", "m">>, <<"r", "i", "a">>}

get_current_wavelength ==
    \E kind \in WmKinds :
        wavemeter' = [wavemeter EXCEPT !.kind = kind,
                                       !.ret = GetCurrentWavelength(kind)]

(* lines 238-259 *)
StartAcqusition(w) ==
    IF w.module_state = "running"
       THEN [w EXCEPT !.ret = "-2"]
       ELSE [w EXCEPT !.module_state = "running",
                      !.sig_handle_timer = Append(@, TRUE),
                      !.ret = "0"]

(* lines 261-279: the running branch emits sig_handle_timer(True) *)
StopAcqusition(w) ==
    IF w.module_state = "idle"
       THEN [w EXCEPT !.ret = "0"]
       ELSE [w EXCEPT !.module_state = "idle",
                      !.sig_handle_timer = Append(@, TRUE),
                      !.ret = "0"]

(* lines 54-66: True binds self.timer to a new started QTimer (the one it   *)
(* replaces is released); False stops the timer if there is one.            *)
HandleTimer(timer, state_change) ==
    IF state_change THEN "active"
    ELSE IF timer = "none" THEN "none" ELSE "stopped"

start_acqusition ==
    /\ Len(wavemeter.sig_handle_timer) < MaxTimerQueue
    /\ wavemeter' = StartAcqusition(wavemeter)

stop_acqusition ==
    /\ Len(wavemeter.sig_handle_timer) < MaxTimerQueue
    /\ wavemeter' = StopAcqusition(wavemeter)

handle_timer ==
    /\ wavemeter.sig_handle_timer # <<>>
    /\ wavemeter' =
          [wavemeter EXCEPT
              !.sig_handle_timer = Tail(@),
              !.timer = HandleTimer(@, Head(wavemeter.sig_handle_timer))]

WmIdle ==
    wavemeter = [module_state |-> "idle", sig_handle_timer |-> <<>>,
                 timer |-> "none", kind |-> <<>>, ret |-> "none"]

WmInit == WmIdle


-----------------------------------------------------------------------------
(* M2LaserLogic.countdata over one scan (logic/m2_laser_logic.py): the      *)
(* buffer startCount allocates, the samples _process_data_continous         *)
(* records, and save_spectrum_data, which M2ScannerGUI.save_spectrum_data   *)
(* calls whenever the save action is triggered, a running scan included.    *)
(* Sample k has wavelength k and any count from 0 to MaxCounts.             *)

(* startCount, line 629: np.zeros([..., self._count_length]) *)
ClearedScan == [countdata |-> EmptyCountdata, recorded |-> 0, replaced |-> 0]

(* _process_data_continous, lines 401-405: the sample is written to the     *)
(* first column, then the buffer is rolled.  replaced is the sample the     *)
(* write destroyed, 0 when the column was empty.                            *)
ProcessDataContinous(scan, count) ==
    [countdata |-> Roll([scan.countdata EXCEPT
                            ![1] = [wavelength |-> scan.recorded + 1,
                                    count |-> count]]),
     recorded |-> scan.recorded + 1,
     replaced |-> scan.countdata[1].wavelength]

(* save_spectrum_data, lines 459-467: the columns before the first one that *)
(* is not all zero are cut off and the result is stored back in countdata.  *)
SaveSpectrumData(scan) == [scan EXCEPT !.countdata = Unmasked(@)]

clear_countdata ==
    svScan' = ClearedScan

_process_data_continous ==
    /\ svScan.recorded < MaxRecorded
    /\ \E count \in 0..MaxCounts :
        svScan' = ProcessDataContinous(svScan, count)

save_countdata ==
    svScan' = SaveSpectrumData(svScan)

SvIdle == svScan = ClearedScan

SvInit == SvIdle


-----------------------------------------------------------------------------
(* RNGLogic (logic/rng_logic.py).  repeat_sig is connected to loop_step     *)
(* with a queued connection: every emission is one pending loop_step call   *)
(* in the logic thread's event queue.  start_monitoring, stop_monitoring    *)
(* and set_monitor_params are called from outside at any time, also while   *)
(* loop_step sleeps.                                                        *)

RngValues == {0, 1}

(* lines 56-58 *)
StartMonitoring(r) ==
    [r EXCEPT !.isMonitoring = TRUE, !.pending = @ + 1]

(* lines 60-61 *)
StopMonitoring(r) == [r EXCEPT !.isMonitoring = FALSE]

(* lines 63-66: the event loop calls loop_step; when monitoring it reads    *)
(* the values and goes to sleep, otherwise it returns at once.              *)
LoopStep(r, values) ==
    IF r.isMonitoring
       THEN [r EXCEPT !.pending = @ - 1, !.executing = TRUE,
                      !.value_list = values]
       ELSE [r EXCEPT !.pending = @ - 1]

(* lines 67-68: the sleep is over, repeat_sig is emitted, loop_step returns *)
LoopStepEmit(r) == [r EXCEPT !.pending = @ + 1, !.executing = FALSE]

start_monitoring ==
    /\ rngLoop.pending < MaxPending
    /\ rngLoop' = StartMonitoring(rngLoop)

stop_monitoring ==
    rngLoop' = StopMonitoring(rngLoop)

set_monitor_params ==
    \E samples_number \in 1..MaxSamplesNumber :
        rngLoop' = [rngLoop EXCEPT !.samples_number = samples_number]

loop_step ==
    /\ rngLoop.pending > 0 /\ ~rngLoop.executing
    /\ \E values \in [1..rngLoop.samples_number -> RngValues] :
        rngLoop' = LoopStep(rngLoop, values)

loop_step_emit ==
    /\ rngLoop.executing
    /\ rngLoop.pending < MaxPending
    /\ rngLoop' = LoopStepEmit(rngLoop)

(* on_activate, lines 26-33 *)
RngIdle ==
    rngLoop = [isMonitoring |-> FALSE, pending |-> 0, executing |-> FALSE,
               value_list |-> <<>>, samples_number |-> 1]

RngInit == RngIdle


-----------------------------------------------------------------------------
(* AWG7k.write_sequence (hardware/awg/tektronix_awg7k.py).  Only the        *)
(* commands that change the device's sequence are kept in sent; the queries *)
(* (WLIS:SIZE?, WLIS:NAME?, *OPC?) are left out.  The four parameter        *)
(* setters of a step are one entry.  The call's record also keeps the step  *)
(* list and the number of active analog tracks it was made with.            *)

WsWaveforms == {"wfm_a", "wfm_b"}
WsNames == {"seq_1", "seq_2"}

(* The waveform tuples of a step: one name per track. *)
WfmTuples == UNION {[1..n -> WsWaveforms] : n \in 1..MaxTracks}

SequenceParameterLists == UNION {[1..n -> WfmTuples] : n \in 0..MaxSteps}

TupleNames(wfm_tuple) == {wfm_tuple[t] : t \in DOMAIN wfm_tuple}

(* lines 1524-1530: every step's waveforms are in device memory *)
WaveformsPresent(avail_waveforms, steps) ==
    \A k \in DOMAIN steps : TupleNames(steps[k]) \subseteq avail_waveforms

(* lines 1543-1563, from step k on: the waveforms of a step are set track   *)
(* by track when the tuple has num_tracks entries, then its parameters; a   *)
(* tuple of another length ends the call with -1.                           *)
RECURSIVE FillSequence(_, _, _, _)
FillSequence(steps, k, num_tracks, sent) ==
    IF k > Len(steps) THEN [sent |-> sent, ret |-> Len(steps)]
    ELSE IF num_tracks # Len(steps[k]) THEN [sent |-> sent, ret |-> -1]
    ELSE FillSequence(steps, k + 1, num_tracks,
            sent \o [t \in 1..num_tracks |->
                        [cmd |-> "SEQ:ELEM:WAV", step |-> k, arg |-> t]]
                 \o <<[cmd |-> "SEQ:ELEM:parameters", step |-> k, arg |-> 0]>>)

(* write_sequence(name, sequence_parameter_list) *)
WriteSequence(written, name, steps, opt08, avail_waveforms, num_tracks) ==
    IF ~opt08 THEN
        [sent |-> <<>>, ret |-> -1, before |-> written, written |-> written,
         steps |-> <<>>, num_tracks |-> 0]
    ELSE IF ~WaveformsPresent(avail_waveforms, steps) THEN
        [sent |-> <<>>, ret |-> -1, before |-> written, written |-> written,
         steps |-> <<>>, num_tracks |-> 0]
    ELSE
        LET r == FillSequence(steps, 1, num_tracks,
                    <<[cmd |-> "SEQ:LENG", step |-> 0, arg |-> 0],
                      [cmd |-> "SEQ:LENG", step |-> 0, arg |-> Len(steps)]>>)
        IN  [sent |-> r.sent, ret |-> r.ret, before |-> written,
             written |-> IF r.ret = -1 THEN written ELSE <<name>>,
             steps |-> <<>>, num_tracks |-> 0]

write_sequence ==
    \E name \in WsNames, steps \in SequenceParameterLists,
       opt08 \in BOOLEAN, avail_waveforms \in SUBSET WsWaveforms,
       num_tracks \in 0..MaxTracks :
        wsCall' = [WriteSequence(wsCall.written, name, steps, opt08,
                                 avail_waveforms, num_tracks)
                      EXCEPT !.steps = steps, !.num_tracks = num_tracks]

(* __init__, line 91: _written_sequences = []; ret 0 with nothing sent      *)
(* stands for no call yet.                                                  *)
WsIdle ==
    wsCall = [sent |-> <<>>, ret |-> 0, before |-> <<>>, written |-> <<>>,
              steps |-> <<>>, num_tracks |-> 0]

WsInit == WsIdle

-----------------------------------------------------------------------------
(* __init__ / on_activate: no measurement, status void. *)
GcInit ==
    /\ gcStatus = -1
    /\ gcCounter = FALSE
    /\ gcBinNumber = 0
    /\ gcHwRunning = FALSE
    /\ gcHwBins = 0
    /\ gcRet = NoCall
    /\ gcCalls = 0
    /\ gcaPc = "idle"
    /\ gcaTimeout = 0
    /\ gcaElapsed = 0
    /\ gcaEntry = -2
    /\ gcaOut = "none"

NotGc == <<awgVars, lsVars, m2Vars, cfVars, mbVars, iiVars, drvVars, trVars, saVars, wwVars, odVars, scVars, wmVars, svVars, rngVars, wsVars>>

GcNext ==
    \/ init_counter /\ UNCHANGED NotGc
    \/ start_counting /\ UNCHANGED NotGc
    \/ terminate_counting /\ UNCHANGED NotGc
    \/ get_status /\ UNCHANGED NotGc
    \/ close_counter /\ UNCHANGED NotGc
    \/ GatePulse /\ UNCHANGED NotGc
    \/ GcaCall /\ UNCHANGED NotGc
    \/ GcaLoop /\ UNCHANGED NotGc
    \/ GcaAfter /\ UNCHANGED NotGc
    \/ GcaReturn /\ UNCHANGED NotGc

GcSpecInit == GcInit /\ AwgIdle /\ LsIdle /\ M2Idle /\ CfIdle /\ MbIdle /\ IiIdle /\ DrvIdle /\ TrIdle /\ SaIdle /\ WwIdle /\ OdIdle /\ ScIdle /\ WmIdle /\ SvIdle /\ RngIdle /\ WsIdle

SpecGC == GcSpecInit /\ [][GcNext]_vars

(* _set_status as a function of (current status, new_status): every status *)
(* is a start state.                                                        *)
SsInit ==
    /\ gcStatus \in Statuses
    /\ gcCounter = FALSE
    /\ gcBinNumber = 0
    /\ gcHwRunning = FALSE
    /\ gcHwBins = 0
    /\ gcRet = NoCall
    /\ gcCalls = 0
    /\ gcaPc = "idle"
    /\ gcaTimeout = 0
    /\ gcaElapsed = 0
    /\ gcaEntry = -2
    /\ gcaOut = "none"

SsNext == SetStatusCall /\ UNCHANGED NotGc

SsSpecInit == SsInit /\ AwgIdle /\ LsIdle /\ M2Idle /\ CfIdle /\ MbIdle /\ IiIdle /\ DrvIdle /\ TrIdle /\ SaIdle /\ WwIdle /\ OdIdle /\ ScIdle /\ WmIdle /\ SvIdle /\ RngIdle /\ WsIdle

SpecSetStatus == SsSpecInit /\ [][SsNext]_vars

NotAwg == <<gcVars, lsVars, m2Vars, cfVars, mbVars, iiVars, drvVars, trVars, saVars, wwVars, odVars, scVars, wmVars, svVars, rngVars, wsVars>>

AwgNext ==
    \/ set_active_channels /\ UNCHANGED NotAwg
    \/ pulser_on /\ UNCHANGED NotAwg
    \/ pulser_off /\ UNCHANGED NotAwg
    \/ set_interleave /\ UNCHANGED NotAwg

AwgSpecInit == AwgInit /\ GcInit /\ LsIdle /\ M2Idle /\ CfIdle /\ MbIdle /\ IiIdle /\ DrvIdle /\ TrIdle /\ SaIdle /\ WwIdle /\ OdIdle /\ ScIdle /\ WmIdle /\ SvIdle /\ RngIdle /\ WsIdle

SpecAWG == AwgSpecInit /\ [][AwgNext]_vars

NotLs == <<gcVars, awgVars, m2Vars, cfVars, mbVars, iiVars, drvVars, trVars, saVars, wwVars, odVars, scVars, wmVars, svVars, rngVars, wsVars>>

LsNext ==
    \/ LsTimeout /\ UNCHANGED NotLs
    \/ setFields /\ UNCHANGED NotLs
    \/ setPSH /\ UNCHANGED NotLs
    \/ LsDispatch /\ UNCHANGED NotLs
    \/ LsPumpReturn /\ UNCHANGED NotLs
    \/ LsWrite /\ UNCHANGED NotLs
    \/ LsDelayReturn /\ UNCHANGED NotLs
    \/ query_fields /\ UNCHANGED NotLs

LsSpecInit == LsInit /\ GcInit /\ AwgIdle /\ M2Idle /\ CfIdle /\ MbIdle /\ IiIdle /\ DrvIdle /\ TrIdle /\ SaIdle /\ WwIdle /\ OdIdle /\ ScIdle /\ WmIdle /\ SvIdle /\ RngIdle /\ WsIdle

SpecLS == LsSpecInit /\ [][LsNext]_vars

NotM2 == <<gcVars, awgVars, lsVars, cfVars, mbVars, iiVars, drvVars, trVars, saVars, wwVars, odVars, scVars, wmVars, svVars, rngVars, wsVars>>

M2Next ==
    \/ M2Timeout /\ UNCHANGED NotM2
    \/ check_laser_loop /\ UNCHANGED NotM2
    \/ stopCount /\ UNCHANGED NotM2
    \/ startCount /\ UNCHANGED NotM2
    \/ count_loop_body /\ UNCHANGED NotM2
    \/ stop_query_loop /\ UNCHANGED NotM2
    \/ start_clicked /\ UNCHANGED NotM2
    \/ scanComplete /\ UNCHANGED NotM2
    \/ save_spectrum_data /\ UNCHANGED NotM2

M2SpecInit == M2Init /\ GcInit /\ AwgIdle /\ LsIdle /\ CfIdle /\ MbIdle /\ IiIdle /\ DrvIdle /\ TrIdle /\ SaIdle /\ WwIdle /\ OdIdle /\ ScIdle /\ WmIdle /\ SvIdle /\ RngIdle /\ WsIdle

SpecM2 == M2SpecInit /\ [][M2Next]_vars

(* M2LaserLogic with a counting device or laser whose read calls may raise. *)
(* The two event loops call every queued slot: the logic thread's           *)
(* check_laser_loop, stopCount, startCount and count_loop_body (with its    *)
(* stop_query_loop rounds), the GUI thread's scanComplete. The user and the *)
(* timer owe nothing.                                                       *)
M2FaultNext ==
    \/ M2Next
    \/ count_loop_raises /\ UNCHANGED NotM2

M2FaultInit == M2SpecInit

M2EventLoops ==
    /\ WF_vars(check_laser_loop /\ UNCHANGED NotM2)
    /\ WF_vars(stopCount /\ UNCHANGED NotM2)
    /\ WF_vars(startCount /\ UNCHANGED NotM2)
    /\ WF_vars(count_loop_body /\ UNCHANGED NotM2)
    /\ WF_vars(stop_query_loop /\ UNCHANGED NotM2)
    /\ WF_vars(scanComplete /\ UNCHANGED NotM2)

SpecM2Fault == M2FaultInit /\ [][M2FaultNext]_vars /\ M2EventLoops

NotCf == <<gcVars, awgVars, lsVars, m2Vars, mbVars, iiVars, drvVars, trVars, saVars, wwVars, odVars, scVars, wmVars, svVars, rngVars, wsVars>>

CfNext ==
    \/ on_activate /\ UNCHANGED NotCf
    \/ on_deactivate /\ UNCHANGED NotCf
    \/ start_scanning /\ UNCHANGED NotCf
    \/ set_permanent_scan /\ UNCHANGED NotCf
    \/ stop_scanning /\ UNCHANGED NotCf
    \/ start_scanner /\ UNCHANGED NotCf
    \/ scan_line_stop /\ UNCHANGED NotCf
    \/ scan_line_check /\ UNCHANGED NotCf
    \/ scan_line_body /\ UNCHANGED NotCf
    \/ history_back /\ UNCHANGED NotCf
    \/ history_forward /\ UNCHANGED NotCf

CfSpecInit == CfInit /\ GcInit /\ AwgIdle /\ LsIdle /\ M2Idle /\ MbIdle /\ IiIdle /\ DrvIdle /\ TrIdle /\ SaIdle /\ WwIdle /\ OdIdle /\ ScIdle /\ WmIdle /\ SvIdle /\ RngIdle /\ WsIdle

SpecCF == CfSpecInit /\ [][CfNext]_vars

NotMb == <<gcVars, awgVars, lsVars, m2Vars, cfVars, iiVars, drvVars, trVars, saVars, wwVars, odVars, scVars, wmVars, svVars, rngVars, wsVars>>

MbNext ==
    \/ count_loop_read /\ UNCHANGED NotMb
    \/ write_wavelength /\ UNCHANGED NotMb
    \/ write_count /\ UNCHANGED NotMb
    \/ roll_buffers /\ UNCHANGED NotMb
    \/ emit_sigCounterUpdated /\ UNCHANGED NotMb
    \/ emit_sigCountDataNext /\ UNCHANGED NotMb
    \/ emit_sigUpdate /\ UNCHANGED NotMb
    \/ update_data /\ UNCHANGED NotMb

MbSpecInit == MbInit /\ GcInit /\ AwgIdle /\ LsIdle /\ M2Idle /\ CfIdle /\ IiIdle /\ DrvIdle /\ TrIdle /\ SaIdle /\ WwIdle /\ OdIdle /\ ScIdle /\ WmIdle /\ SvIdle /\ RngIdle /\ WsIdle

SpecMB == MbSpecInit /\ [][MbNext]_vars

NotIi == <<gcVars, awgVars, lsVars, m2Vars, cfVars, mbVars, drvVars, trVars, saVars, wwVars, odVars, scVars, wmVars, svVars, rngVars, wsVars>>

IiNext ==
    \/ initialize_image_xy /\ UNCHANGED NotIi
    \/ initialize_image_depth /\ UNCHANGED NotIi

IiSpecInit == IiInit /\ GcInit /\ AwgIdle /\ LsIdle /\ M2Idle /\ CfIdle /\ MbIdle /\ DrvIdle /\ TrIdle /\ SaIdle /\ WwIdle /\ OdIdle /\ ScIdle /\ WmIdle /\ SvIdle /\ RngIdle /\ WsIdle

SpecII == IiSpecInit /\ [][IiNext]_vars

NotDrv == <<gcVars, awgVars, lsVars, m2Vars, cfVars, mbVars, iiVars, trVars, saVars, wwVars, odVars, scVars, wmVars, svVars, rngVars, wsVars>>

DrvNext ==
    \/ drv_on_activate /\ UNCHANGED NotDrv
    \/ build_message /\ UNCHANGED NotDrv

DrvSpecInit == DrvInit /\ GcInit /\ AwgIdle /\ LsIdle /\ M2Idle /\ CfIdle /\ MbIdle /\ IiIdle /\ TrIdle /\ SaIdle /\ WwIdle /\ OdIdle /\ ScIdle /\ WmIdle /\ SvIdle /\ RngIdle /\ WsIdle

SpecTx == DrvSpecInit /\ [][DrvNext]_vars

NotTr == <<gcVars, awgVars, lsVars, m2Vars, cfVars, mbVars, iiVars, drvVars, saVars, wwVars, odVars, scVars, wmVars, svVars, rngVars, wsVars>>

TrNext ==
    \/ trunc_terascan_rate /\ UNCHANGED NotTr

TrSpecInit == TrInit /\ GcInit /\ AwgIdle /\ LsIdle /\ M2Idle /\ CfIdle /\ MbIdle /\ IiIdle /\ DrvIdle /\ SaIdle /\ WwIdle /\ OdIdle /\ ScIdle /\ WmIdle /\ SvIdle /\ RngIdle /\ WsIdle

SpecTR == TrSpecInit /\ [][TrNext]_vars

NotSa == <<gcVars, awgVars, lsVars, m2Vars, cfVars, mbVars, iiVars, drvVars, trVars, wwVars, odVars, scVars, wmVars, svVars, rngVars, wsVars>>

SaNext ==
    \/ stop_all_operation /\ UNCHANGED NotSa
    \/ sa_probe /\ UNCHANGED NotSa
    \/ sa_scans /\ UNCHANGED NotSa
    \/ sa_tuning /\ UNCHANGED NotSa
    \/ sa_check /\ UNCHANGED NotSa

SaSpecInit == SaInit /\ GcInit /\ AwgIdle /\ LsIdle /\ M2Idle /\ CfIdle /\ MbIdle /\ IiIdle /\ DrvIdle /\ TrIdle /\ WwIdle /\ OdIdle /\ ScIdle /\ WmIdle /\ SvIdle /\ RngIdle /\ WsIdle

SpecSA == SaSpecInit /\ [][SaNext]_vars

NotWw == <<gcVars, awgVars, lsVars, m2Vars, cfVars, mbVars, iiVars, drvVars, trVars, saVars, odVars, scVars, wmVars, svVars, rngVars, wsVars>>

WwNext ==
    \/ write_waveform /\ UNCHANGED NotWw

WwSpecInit == WwInit /\ GcInit /\ AwgIdle /\ LsIdle /\ M2Idle /\ CfIdle /\ MbIdle /\ IiIdle /\ DrvIdle /\ TrIdle /\ SaIdle /\ OdIdle /\ ScIdle /\ WmIdle /\ SvIdle /\ RngIdle /\ WsIdle

SpecWW == WwSpecInit /\ [][WwNext]_vars

NotOd == <<gcVars, awgVars, lsVars, m2Vars, cfVars, mbVars, iiVars, drvVars, trVars, saVars, wwVars, scVars, wmVars, svVars, rngVars, wsVars>>

OdNext ==
    \/ order_data /\ UNCHANGED NotOd

OdSpecInit == OdInit /\ GcInit /\ AwgIdle /\ LsIdle /\ M2Idle /\ CfIdle /\ MbIdle /\ IiIdle /\ DrvIdle /\ TrIdle /\ SaIdle /\ WwIdle /\ ScIdle /\ WmIdle /\ SvIdle /\ RngIdle /\ WsIdle

SpecOD == OdSpecInit /\ [][OdNext]_vars

NotSc == <<gcVars, awgVars, lsVars, m2Vars, cfVars, mbVars, iiVars, drvVars, trVars, saVars, wwVars, odVars, wmVars, svVars, rngVars, wsVars>>

ScNext ==
    \/ set_up_clock /\ UNCHANGED NotSc

ScSpecInit == ScInit /\ GcInit /\ AwgIdle /\ LsIdle /\ M2Idle /\ CfIdle /\ MbIdle /\ IiIdle /\ DrvIdle /\ TrIdle /\ SaIdle /\ WwIdle /\ OdIdle /\ WmIdle /\ SvIdle /\ RngIdle /\ WsIdle

SpecSC == ScSpecInit /\ [][ScNext]_vars

NotWm == <<gcVars, awgVars, lsVars, m2Vars, cfVars, mbVars, iiVars, drvVars, trVars, saVars, wwVars, odVars, scVars, svVars, rngVars, wsVars>>

WmNext ==
    \/ start_acqusition /\ UNCHANGED NotWm
    \/ stop_acqusition /\ UNCHANGED NotWm
    \/ handle_timer /\ UNCHANGED NotWm
    \/ get_current_wavelength /\ UNCHANGED NotWm

WmSpecInit == WmInit /\ GcInit /\ AwgIdle /\ LsIdle /\ M2Idle /\ CfIdle /\ MbIdle /\ IiIdle /\ DrvIdle /\ TrIdle /\ SaIdle /\ WwIdle /\ OdIdle /\ ScIdle /\ SvIdle /\ RngIdle /\ WsIdle

SpecWM == WmSpecInit /\ [][WmNext]_vars

NotSv == <<gcVars, awgVars, lsVars, m2Vars, cfVars, mbVars, iiVars, drvVars, trVars, saVars, wwVars, odVars, scVars, wmVars, rngVars, wsVars>>

SvNext ==
    \/ clear_countdata /\ UNCHANGED NotSv
    \/ _process_data_continous /\ UNCHANGED NotSv
    \/ save_countdata /\ UNCHANGED NotSv

SvSpecInit == SvInit /\ GcInit /\ AwgIdle /\ LsIdle /\ M2Idle /\ CfIdle /\ MbIdle /\ IiIdle /\ DrvIdle /\ TrIdle /\ SaIdle /\ WwIdle /\ OdIdle /\ ScIdle /\ WmIdle /\ RngIdle /\ WsIdle

SpecSV == SvSpecInit /\ [][SvNext]_vars

NotRng == <<gcVars, awgVars, lsVars, m2Vars, cfVars, mbVars, iiVars, drvVars, trVars, saVars, wwVars, odVars, scVars, wmVars, svVars, wsVars>>

RngNext ==
    \/ start_monitoring /\ UNCHANGED NotRng
    \/ stop_monitoring /\ UNCHANGED NotRng
    \/ set_monitor_params /\ UNCHANGED NotRng
    \/ loop_step /\ UNCHANGED NotRng
    \/ loop_step_emit /\ UNCHANGED NotRng

RngSpecInit == RngInit /\ GcInit /\ AwgIdle /\ LsIdle /\ M2Idle /\ CfIdle /\ MbIdle /\ IiIdle /\ DrvIdle /\ TrIdle /\ SaIdle /\ WwIdle /\ OdIdle /\ ScIdle /\ WmIdle /\ SvIdle /\ WsIdle

SpecRNG == RngSpecInit /\ [][RngNext]_vars

NotWs == <<gcVars, awgVars, lsVars, m2Vars, cfVars, mbVars, iiVars, drvVars, trVars, saVars, wwVars, odVars, scVars, wmVars, svVars, rngVars>>

WsNext ==
    \/ write_sequence /\ UNCHANGED NotWs

WsSpecInit == WsInit /\ GcInit /\ AwgIdle /\ LsIdle /\ M2Idle /\ CfIdle /\ MbIdle /\ IiIdle /\ DrvIdle /\ TrIdle /\ SaIdle /\ WwIdle /\ OdIdle /\ ScIdle /\ WmIdle /\ SvIdle /\ RngIdle

SpecWS == WsSpecInit /\ [][WsNext]_vars

-----------------------------------------------------------------------------
(* C1: _set_status(new) changes the status and returns 0 exactly for the    *)
(* pairs void->idle, in_progress->idle, idle->in_progress,                  *)
(* finished->in_progress, in_progress->finished and new = void from any     *)
(* status; for every other pair it returns -1 and leaves the status as it   *)
(* was.                                                                     *)
AllowedTransitions ==
    {<<-1, 0>>, <<1, 0>>, <<0, 1>>, <<2, 1>>, <<1, 2>>}
        \cup {<<c, -1>> : c \in Statuses}

C1_TransitionTable ==
    (gcRet.op = "_set_status" /\ gcRet.arg \in Statuses) =>
        IF <<gcRet.pre, gcRet.arg>> \in AllowedTransitions
        THEN gcStatus = gcRet.arg /\ gcRet.val = 0
        ELSE gcStatus = gcRet.pre /\ gcRet.val = -1

C1_Witness ==
    /\ gcRet.op = "_set_status"
    /\ gcRet.pre = Idle /\ gcRet.arg = Finished
    /\ gcRet.val = -1 /\ gcStatus = Idle

(* C2: after terminate_counting() returns on a counter whose vendor         *)
(* stop/clear calls succeed, the status is idle, whichever of idle,         *)
(* in_progress, finished it was before.                                     *)
C2_TerminateLeavesIdle ==
    (gcRet.op = "terminate_counting" /\ gcRet.ok
        /\ gcRet.pre \in {Idle, InProgress, Finished}) => gcStatus = Idle

(* C3: get_count_array(timeout=-1) entered while the counter is in_progress *)
(* does not return until get_status() reports another status.               *)
C3_UnboundedWait ==
    (gcRet.op = "get_count_array" /\ gcRet.arg = -1 /\ gcRet.pre = InProgress)
        => gcRet.val # InProgress

(* C4: starting from all channels staged off, every set_active_channels     *)
(* request either stores a staged state whose active set is one of the nine *)
(* activation configs, or leaves the staged state as it was and returns     *)
(* that unchanged state; the staged active set is always one of the nine.   *)
C4_ActivationClosure ==
    /\ [](ActiveSet(awgChState) \in ActivationConfigs)
    /\ [](Cardinality(ActivationConfigs) = 9)
    /\ [][awgRet'.op = "set_active_channels" =>
            \/ /\ awgRet'.branch = "accepted"
               /\ ActiveSet(awgChState') \in ActivationConfigs
               /\ awgRet'.val = awgChState'
            \/ /\ awgRet'.branch # "accepted"
               /\ awgChState' = awgChState
               /\ awgRet'.val = awgChState]_vars

(* A request was rejected while channels were staged on, and the staged     *)
(* state returned is the one before it.                                     *)
C4_Witness ==
    /\ awgRet.op = "set_active_channels"
    /\ awgRet.branch = "rejected"
    /\ ActiveSet(awgChState) = {"a_ch1", "d_ch1", "d_ch2"}
    /\ awgRet.val = awgChState

(* The messages that go out through query(): questions the instrument      *)
(* answers, which change nothing in it.                                     *)
InterleaveQueries == {"AWGC:INT:STAT?", "AWGC:INT:ZER?"}

(* C5: set_active_channels sends no command to the instrument: nothing goes *)
(* out through write(); the only traffic is the interleave questions asked  *)
(* through query() by get_constraints and get_active_channels, and those    *)
(* only when option 06 is installed. Output state, DAC resolution and run   *)
(* state are left alone, and output state and DAC resolution change only    *)
(* in pulser_on and pulser_off.                                             *)
C5_StagedOnly ==
    [][/\ awgRet'.op = "set_active_channels" =>
            /\ awgHwOut' = awgHwOut /\ awgHwDac' = awgHwDac
            /\ awgRunning' = awgRunning
            /\ \A i \in DOMAIN awgSent' : awgSent'[i] \in InterleaveQueries
            /\ ~awgOpt06 => awgSent' = <<>>
       /\ (awgHwOut' # awgHwOut \/ awgHwDac' # awgHwDac) =>
            awgRet'.op \in {"pulser_on", "pulser_off"}]_vars

(* A request was accepted and staged while the instrument's outputs are     *)
(* still off: the channel is staged on, the output is not.                  *)
C5_Witness ==
    /\ awgRet.op = "set_active_channels"
    /\ awgRet.branch = "accepted"
    /\ awgChState["a_ch1"] /\ ~awgHwOut[1]
    /\ awgChState["d_ch2"] /\ awgHwDac[1] = 10
    /\ awgOpt06 /\ awgSent # <<>>

(* C6: no poll and write share the bus. While set_field or set_psh is past  *)
(* its last processEvents() call (in its three writes or in the 120 ms      *)
(* delay after them), query_fields is not running: no query_fields call is  *)
(* on the logic thread's stack together with a set_field/set_psh call that  *)
(* is in its write or delay phase, whatever timeouts and panel requests     *)
(* were queued and run during the pumping.                                  *)
LsInWindow(f) == f.op \in LsSetOps /\ f.pc \in {"write", "delay"}

C6_NoPollDuringWrite ==
    \A j, k \in DOMAIN lsStack :
        ~(lsStack[j].op = "query_fields" /\ LsInWindow(lsStack[k]))

(* A set_field call is in its delay after the third write while the timer   *)
(* runs again (a request served during the pumping restarted it) and a      *)
(* timeout's query_fields call waits in the queue.                          *)
C6_Witness ==
    /\ Len(lsStack) = 1
    /\ lsStack[1].op = "set_field" /\ lsStack[1].pc = "delay"
    /\ lsBus = "set_field"
    /\ lsTimer
    /\ lsQueue # <<>> /\ Head(lsQueue) = "query_fields"

(* A step in which count_loop_body runs past its stop_query_loop() call:    *)
(* called with stopRequest set already, or resumed when stop_query_loop     *)
(* returns.                                                                 *)
M2Iteration ==
    /\ count_loop_body \/ stop_query_loop
    /\ m2Ret'.op = "count_loop_body"

(* C7: a stop request is acted on only at the top of a count_loop_body      *)
(* iteration. The iteration that finds stopRequested set reads and records  *)
(* no sample, leaves counter and clock closed, sends stop_terascan (and     *)
(* nothing else) to the laser, clears the flag, unlocks the module and does *)
(* not emit sigCountDataNext; an iteration of the locked module that starts *)
(* with the flag set is such an iteration; stop_terascan is sent and the    *)
(* flag cleared nowhere else.                                               *)
C7_StopAtTopOfIteration ==
    /\ []((m2Ret.op = "count_loop_body" /\ m2Ret.flag) =>
            /\ ~m2Ret.read /\ ~m2Ret.recorded /\ ~m2Ret.rearmed
            /\ m2Ret.sent = <<"stop_terascan">>
            /\ ~m2Counter /\ ~m2StopRequested /\ ~m2Locked
            /\ \A k \in DOMAIN m2Queue : m2Queue[k] # CountDataNext)
    /\ [](\A k \in DOMAIN m2Ret.sent :
            m2Ret.sent[k] = "stop_terascan" =>
                m2Ret.op = "count_loop_body" /\ m2Ret.flag)
    /\ [][(M2Iteration /\ m2Locked /\ m2StopRequested) => m2Ret'.flag]_vars
    /\ [][(m2StopRequested /\ ~m2StopRequested') =>
                (M2Iteration /\ m2Ret'.flag)]_vars

(* The stop branch has just run in a session whose idle polling had been    *)
(* paused: the module is unlocked, the counter closed, the flag cleared.     *)
C7_Witness ==
    /\ m2Ret.op = "count_loop_body" /\ m2Ret.flag
    /\ m2Ret.sent = <<"stop_terascan">>
    /\ ~m2Locked /\ ~m2Counter /\ ~m2StopRequested
    /\ m2StopRequest /\ m2Pump = -1

(* C8: idle polling is paused before the terascan starts: between           *)
(* startCount's start_terascan and the end of that scan (complete seen or   *)
(* stop honoured) check_laser_loop sends no wavelength query to the laser.  *)
C8_NoPollDuringScan ==
    ~(/\ m2ScanActive
      /\ m2Ret.op = "check_laser_loop"
      /\ m2Ret.sent = <<"get_wavelength">>)

(* C9: whenever a terascan session ends, by the laser reporting complete or *)
(* by a stop request being honoured, idle polling is resumed: the timer     *)
(* runs and stopRequest is False.                                           *)
C9_PollingResumed ==
    (m2Ret.op = "count_loop_body" /\ m2Ret.branch \in {"complete", "stopped"})
        => (m2Timer /\ ~m2StopRequest)

(* C10 as stated: when a scan completes and repetition_count has not yet    *)
(* reached numScans, the next repetition is started by re-arming the        *)
(* counter only: setup_terascan is not sent again.                          *)
C10_NoSetupBetweenRepetitions ==
    ~(/\ m2Ret.op = "startCount" /\ m2Ret.origin = "scanComplete"
      /\ m2RepCount < m2NumScans
      /\ \E k \in DOMAIN m2Ret.sent : m2Ret.sent[k] = "setup_terascan")

(* C10 as amended: when a scan completes and repetition_count has not yet   *)
(* reached numScans, count_loop_body does not re-arm itself; scanComplete   *)
(* unlocks the module and emits sigStartCounter, and the startCount it      *)
(* causes sends flush, setup_terascan and start_terascan to the laser       *)
(* again before it sets up the counter and emits sigCountDataNext. Every    *)
(* iteration that reads a sample belongs to a scan set up by a              *)
(* setup_terascan of its own.                                               *)
C10_RepetitionRestartsScan ==
    /\ []((m2Ret.op = "startCount" /\ m2Ret.origin = "scanComplete") =>
            m2Ret.sent = StartSequence)
    /\ []((m2Ret.op = "count_loop_body" /\ m2Ret.branch = "complete") =>
            ~m2Ret.rearmed /\ ~m2Counter /\ m2GuiQueue > 0)
    /\ []((m2Ret.op = "scanComplete" /\ m2Ret.branch = "advance") =>
            /\ ~m2Locked
            /\ \E k \in DOMAIN m2Queue :
                    m2Queue[k] = M2Event("startCount", "scanComplete"))
    /\ [][(M2Iteration /\ m2Ret'.read) => m2Fresh]_vars

(* The second repetition of a two-scan session has just been started by     *)
(* startCount, called on scanComplete's sigStartCounter.                    *)
C10_Witness ==
    /\ m2Ret.op = "startCount" /\ m2Ret.origin = "scanComplete"
    /\ m2Ret.branch = "started" /\ m2Ret.sent = StartSequence
    /\ m2RepCount = 1 /\ m2NumScans = 2
    /\ m2Locked /\ m2Counter

(* C11: a terascan session started with numScans = N runs exactly N scans:  *)
(* no more than N scans are started in it, and when scanComplete ends the   *)
(* session (module unlocked, repetition_count reset to 0, no further scan   *)
(* started) N scans have been run, whatever save_spectrum_data calls the    *)
(* operator made.                                                           *)
C11_ExactlyNScans ==
    /\ m2Scans <= m2NumScans
    /\ (m2Ret.op = "scanComplete" /\ m2Ret.branch = "final") =>
            (m2Scans = m2NumScans /\ ~m2Locked /\ m2RepCount = 0)

(* C12 (count_loop_body): a sample whose first value is negative is fatal.  *)
(* The iteration that read it records nothing, sets stopRequested and       *)
(* re-arms the loop, so that the next iteration closes counter and clock    *)
(* and unlocks the module without another read.                             *)
C12_FatalReadingEndsSession ==
    (m2Ret.op = "count_loop_body" /\ m2Ret.read /\ m2Ret.negative) =>
        /\ ~m2Ret.recorded
        /\ m2StopRequested
        /\ \E k \in DOMAIN m2Queue : m2Queue[k] = CountDataNext

(* C13 (count_loop_body): an iteration in which a hardware call raised is   *)
(* followed by the module being unlocked.                                   *)
C13_RaiseUnlocks ==
    (m2Ret.op = "count_loop_body" /\ m2Ret.branch = "raised") ~> ~m2Locked

(* C14 (_scan_line): stop check, hardware read and buffer update of one     *)
(* iteration run under threadlock, so stop_scanning never sets              *)
(* stopRequested while an iteration is between its stop check and its       *)
(* image update.                                                            *)
C14_NoStopInsideIteration ==
    ~(cfRet.op = "stop_scanning" /\ cfRet.branch = "set" /\ cfPc = "scanning")

(* C17: the scans of one activation, each ended through the stop branch of  *)
(* _scan_line, leave their snapshots at the end of the history in scan      *)
(* order, and the history never has more than max_history_length entries:   *)
(* from the tenth scan on it holds exactly the snapshots of the ten most    *)
(* recent scans (after fifteen scans those of scans 6 to 15).               *)
C17_HistoryKeepsLastTen ==
    cfActive =>
        LET n == Len(cfHistory)
            k == CfMin(cfStops, max_history_length)
        IN  /\ k <= n /\ n <= max_history_length
            /\ \A i \in 1..k : cfHistory[n - k + i] = cfStops - k + i

(* The fifteenth scan has just been stopped. *)
C17_Witness ==
    /\ cfActive /\ cfStops = 15
    /\ cfRet.op = "_scan_line" /\ cfRet.branch = "stopped"
    /\ cfHistory = <<6, 7, 8, 9, 10, 11, 12, 13, 14, 15>>

(* C18: the history never holds more than max_history_length entries while *)
(* the module is active, and on_deactivate writes at most                   *)
(* max_history_length entries to the status variables.                      *)
C18_HistoryBounded ==
    /\ cfActive => Len(cfHistory) <= max_history_length
    /\ cfRet.op = "on_deactivate" => cfRet.written <= max_history_length

(* C19: while the module is active history_index points into the history,  *)
(* whatever scans were stopped in between. history_back at index 0 and      *)
(* history_forward at the last index change nothing and restore nothing;    *)
(* otherwise the index moves by exactly one and the entry at the new index  *)
(* is the one restored.                                                     *)
C19_HistoryIndexInRange ==
    /\ [](cfActive =>
            (0 <= cfHistoryIndex /\ cfHistoryIndex <= Len(cfHistory) - 1))
    /\ [][history_back =>
            IF cfHistoryIndex = 0
            THEN /\ cfRet'.restored = -1
                 /\ UNCHANGED <<cfHistoryIndex, cfHistory, cfZscan,
                                cfContinuable>>
            ELSE /\ cfHistoryIndex' = cfHistoryIndex - 1
                 /\ cfRet'.restored = cfHistory[cfHistoryIndex' + 1]
                 /\ UNCHANGED cfHistory]_vars
    /\ [][history_forward =>
            IF cfHistoryIndex = Len(cfHistory) - 1
            THEN /\ cfRet'.restored = -1
                 /\ UNCHANGED <<cfHistoryIndex, cfHistory, cfZscan,
                                cfContinuable>>
            ELSE /\ cfHistoryIndex' = cfHistoryIndex + 1
                 /\ cfRet'.restored = cfHistory[cfHistoryIndex' + 1]
                 /\ UNCHANGED cfHistory]_vars

(* After twelve scans, with the oldest entries dropped, history_back twice  *)
(* and history_forward once have brought back the snapshot of scan 11.      *)
C19_Witness ==
    /\ cfActive /\ cfStops = 12
    /\ cfRet.op = "history_forward" /\ cfRet.branch = "moved"
    /\ cfHistoryIndex = 8 /\ cfRet.restored = 11

C15_OrderedAndWhole ==
    /\ \A i, j \in DOMAIN mbLog :
            (i < j /\ mbLog[i] = "sigCountDataNext") =>
                mbLog[j] \notin {"countdata", "sigCounterUpdated", "sigUpdate"}
    /\ \A i, j \in DOMAIN mbLog :
            (i < j /\ mbLog[i] \in {"sigCounterUpdated", "sigUpdate"}) =>
                mbLog[j] \notin {"get_counter", "countdata"}
    /\ \A c \in DOMAIN mbShown : mbShown[c].wavelength = mbShown[c].count

(* C16: a count_loop_body iteration whose laser state is classified as      *)
(* stitching, also when get_terascan_update gave no usable update, leaves   *)
(* countdata and countdata_smoothed as they were and re-arms the loop at    *)
(* once: sigCountDataNext is emitted and count_loop_body returns.           *)
C16_StitchingRecordsNothing ==
    [][(count_loop_read
            /\ Classify(mbUpdate'.update, mbUpdate'.scandone) = "stitching")
        => /\ UNCHANGED <<mbCountdata, mbSmoothed>>
           /\ mbToken' /\ mbPc' = "idle"
           /\ mbLog'[Len(mbLog')] = "sigCountDataNext"]_vars

(* The second sample was read while the laser gave no usable update: the    *)
(* buffer still holds the first sample only, and the loop is re-armed.      *)
C16_Witness ==
    /\ mbSample = 2 /\ mbUpdate = [update |-> "none", scandone |-> FALSE]
    /\ mbLog = <<"get_counter", "sigUpdate", "sigCountDataNext">>
    /\ mbCountdata = Roll([EmptyCountdata EXCEPT ![1] = Column(1)])
    /\ mbSmoothed = 1
    /\ mbToken /\ mbPc = "idle"


(* C21 as stated: in an xy image the axis with the larger range gets        *)
(* max(xy_resolution, 2) samples and the other axis                        *)
(* max(round(xy_resolution * short_range / long_range), 2).                 *)
C21_ShortAxisRounded ==
    (~iiArgs.zscan /\ iiOut.ret = "0") =>
        LET dx == iiArgs.x2 - iiArgs.x1
            dy == iiArgs.y2 - iiArgs.y1
            res == iiArgs.xy_resolution
        IN  IF dx >= dy
            THEN /\ iiOut.X = IiMax(res, 2)
                 /\ iiOut.Y = IiMax(RoundDiv(res * dy, dx), 2)
            ELSE /\ iiOut.Y = IiMax(res, 2)
                 /\ iiOut.X = IiMax(RoundDiv(res * dx, dy), 2)

(* C21 as amended: in an xy image whose larger range is not empty the axis  *)
(* with the larger range (x when they are equal) gets max(xy_resolution, 2) *)
(* samples and the other axis max(int(xy_resolution * short_range /         *)
(* long_range), 2), the quotient cut off, not rounded; for x_range = 10,    *)
(* y_range = 4, xy_resolution = 100 that is 100 and 40.                     *)
C21_ShortAxisTruncated ==
    /\ (~iiArgs.zscan /\ iiOut.ret = "0") =>
        LET dx == iiArgs.x2 - iiArgs.x1
            dy == iiArgs.y2 - iiArgs.y1
            res == iiArgs.xy_resolution
        IN  IF dx >= dy
            THEN /\ iiOut.X = IiMax(res, 2)
                 /\ iiOut.Y = IiMax((res * dy) \div dx, 2)
                 /\ (res * dy) \div dx <= IiMax(res, 2)
            ELSE /\ iiOut.Y = IiMax(res, 2)
                 /\ iiOut.X = IiMax((res * dx) \div dy, 2)
    /\ (/\ ~iiArgs.zscan /\ iiOut.ret # "none"
        /\ iiArgs.x2 - iiArgs.x1 = 10 /\ iiArgs.y2 - iiArgs.y1 = 4
        /\ iiArgs.xy_resolution = 100) =>
            (iiOut.ret = "0" /\ iiOut.X = 100 /\ iiOut.Y = 40)

(* x_range = 10, y_range = 4, xy_resolution = 100 gave 100 and 40. *)
C21_Witness ==
    /\ ~iiArgs.zscan /\ iiOut.ret = "0"
    /\ iiArgs.x1 = 0 /\ iiArgs.x2 = 10 /\ iiArgs.y1 = 0 /\ iiArgs.y2 = 4
    /\ iiArgs.xy_resolution = 100
    /\ iiOut.X = 100 /\ iiOut.Y = 40


-----------------------------------------------------------------------------
(* C22 as stated: counted from the id 1 that activation assigns, the k-th   *)
(* _build_message call without an explicit id emits k for k = 1..16383,     *)
(* and the call after those emits 1.                                        *)
C22_EmitsFromOne ==
    (drvRun >= 1 /\ drvMsg.built) =>
        drvMsg.transmission_id = ((drvRun - 1) % IdModulus) + 1

(* C22: counted from the id 1 that activation assigns, the k-th             *)
(* _build_message call without an explicit id emits k + 1 for               *)
(* k = 1..16382, the 16383rd call emits 1 and the call after it emits 2:    *)
(* every id of 1..16383 is emitted once per 16383 calls, the held id 1 last.*)
C22_EmitsSuccessor ==
    /\ (drvRun >= 1 /\ drvRun <= IdModulus - 1) =>
           (drvMsg.built /\ drvMsg.transmission_id = drvRun + 1)
    /\ drvRun = IdModulus =>
           (drvMsg.built /\ drvMsg.transmission_id = 1)
    /\ drvRun = IdModulus + 1 =>
           (drvMsg.built /\ drvMsg.transmission_id = 2)

C22_Witness ==
    /\ drvRun = IdModulus + 1
    /\ drvMsg.transmission_id = 2
    /\ ~drvMsg.given

(* C23 as stated: the transmission_id of every built message lies in        *)
(* 1..16383, whatever id the caller passed.                                  *)
C23_IdInRange ==
    drvMsg.built => drvMsg.transmission_id \in 1..IdModulus


-----------------------------------------------------------------------------
-----------------------------------------------------------------------------
(* C24 as stated: stop_all_operation(repeated=True) ends by returning even  *)
(* when an operation never reports stopped: once its attempts are used up   *)
(* the call has returned, with true exactly when its last pass found        *)
(* nothing operating.                                                       *)
C24_RetriesEndInReturn ==
    /\ (saRepeated /\ saAttempts > MaxAttempts) => saPc = "returned"
    /\ (saRepeated /\ saPc = "returned") => saRet.value = ~saOperating


-----------------------------------------------------------------------------
(* C26 as stated: outside the allowed length write_waveform returns         *)
(* (-1, []) and writes, transfers and imports nothing; for every total      *)
(* inside it, it returns (total, names) with one name per key of            *)
(* analog_samples.                                                          *)
C26_EveryLengthInRange ==
    wwArgs.called =>
        IF LengthRejected(wwArgs.total, wwArgs.opt01)
           THEN wwOut = WwOut(-1, <<>>) /\ wwFiles = <<>> /\ wwSent = <<>>
                /\ wwImported = <<>>
           ELSE wwOut.ret = wwArgs.total
                /\ Len(wwOut.names) = Len(wwArgs.analog)

(* C26: write_waveform returns (-1, []) and writes, transfers and imports   *)
(* nothing when total_number_of_samples is below 1 or above 32400000        *)
(* (64800000 with option 01) or when analog_samples has no key; otherwise   *)
(* it returns (total_number_of_samples, names) with one name per key of     *)
(* analog_samples, in key order, each written, transferred and imported.    *)
C26_LengthAndChannels ==
    wwArgs.called =>
        IF \/ wwArgs.total < 1
           \/ wwArgs.total > (IF wwArgs.opt01 THEN 64800000 ELSE 32400000)
           \/ wwArgs.analog = <<>>
           THEN wwOut = WwOut(-1, <<>>) /\ wwFiles = <<>> /\ wwSent = <<>>
                /\ wwImported = <<>>
           ELSE /\ wwOut = WwOut(wwArgs.total, wwArgs.analog)
                /\ wwFiles = wwArgs.analog
                /\ wwSent = wwArgs.analog
                /\ wwImported = wwArgs.analog

C26_Witness ==
    /\ wwArgs.called
    /\ wwArgs.total = 32400001
    /\ wwArgs.opt01
    /\ wwOut = WwOut(32400001, <<2, 1>>)


-----------------------------------------------------------------------------
-----------------------------------------------------------------------------
-----------------------------------------------------------------------------
(* C29 as stated: order_data() leaves a buffer whose wavelengths already    *)
(* ascend unchanged, also when several columns share a wavelength, and a    *)
(* second order_data() changes nothing the first has not changed.           *)
C29_OrderedIsFixed ==
    [][(odCalls' = odCalls + 1 /\ (Ascending(odCountdata) \/ odCalls >= 1))
          => odCountdata' = odCountdata]_vars


-----------------------------------------------------------------------------
-----------------------------------------------------------------------------
(* C31 as stated: set_up_clock clamps the requested frequency into          *)
(* [1 Hz, 1e10 Hz], so every call succeeds, and the bin width is            *)
(* round(1e12 / frequency) ps for the clamped frequency.                    *)
C31_ClampedAndRounded ==
    scClock.ret # 1 =>
        /\ scClock.ret = 0
        /\ scClock.frequency >= 1 =>
              scClock.bin_width =
                  RoundDiv(PicosecondsPerKHzPeriod,
                           IF scClock.frequency > max_count_frequency
                              THEN max_count_frequency
                              ELSE scClock.frequency)

(* C31: set_up_clock refuses a frequency below 1 Hz or above 1e10 Hz: it    *)
(* returns -1 and leaves the bin width as it was; for a frequency inside    *)
(* the range it returns 0 and sets the bin width to 1e12 / frequency ps     *)
(* with the fraction cut off.                                               *)
C31_RejectedOrTruncated ==
    [][scClock' # scClock =>
          IF scClock'.frequency < 1 \/ scClock'.frequency > 10000000
             THEN scClock'.ret = -1 /\ scClock'.bin_width = scClock.bin_width
             ELSE /\ scClock'.ret = 0
                  /\ scClock'.bin_width * scClock'.frequency <= 1000000000
                  /\ (scClock'.bin_width + 1) * scClock'.frequency
                        > 1000000000]_vars

C31_Witness ==
    /\ scClock.frequency = 7
    /\ scClock.ret = 0
    /\ scClock.bin_width = 142857142


-----------------------------------------------------------------------------
(* C32: stop_acqusition called while the module is running stops the        *)
(* polling timer and returns the module to idle: once the hardware thread   *)
(* has handled every queued sig_handle_timer emission, no polling timer is  *)
(* active while the module is idle.                                         *)
C32_NoTimerWhileIdle ==
    (wavemeter.module_state = "idle" /\ wavemeter.sig_handle_timer = <<>>)
        => wavemeter.timer # "active"

-----------------------------------------------------------------------------
(* C33: get_current_wavelength(kind) returns the cached value when kind is  *)
(* exactly "vac", the ConvertUnit result when kind is exactly "air", and    *)
(* -2.0 for every other string.                                             *)
C33_ExactKinds ==
    wavemeter.ret \in {"cached", "ConvertUnit", "-2.0"} =>
        wavemeter.ret = (IF wavemeter.kind = Vac THEN "cached"
                         ELSE IF wavemeter.kind = Air THEN "ConvertUnit"
                         ELSE "-2.0")


-----------------------------------------------------------------------------
(* C34: whenever M2LaserLogic is not locked, stopRequested is False: a stop *)
(* request raised during a scan is consumed before the module is unlocked.  *)
C34_UnlockedMeansNoStopRequested == ~m2Locked => ~m2StopRequested


-----------------------------------------------------------------------------
(* C38: startCount() invoked while M2LaserLogic is already locked has no    *)
(* effect: nothing is sent to the laser, the buffers are not reset and no   *)
(* second sigCountDataNext is emitted.                                      *)
C38_LockedStartCountSendsNothing ==
    (m2Ret.op = "startCount" /\ m2Ret.branch = "already_locked") =>
        /\ m2Ret.sent = <<>>
        /\ ~m2Ret.rearmed


-----------------------------------------------------------------------------
(* C35: a stop_scanning() call issued after start_scanning() has returned   *)
(* stops that scan at its next _scan_line iteration, even when the call     *)
(* arrives before the queued start_scanner slot has locked the module: the  *)
(* call leaves stopRequested set for the scan that is about to start.       *)
C35_StopBeforeLockHonoured ==
    (cfRet.op = "stop_scanning" /\ cfQueue # <<>>
        /\ Head(cfQueue) = "start_scanner") => cfStopRequested


-----------------------------------------------------------------------------
(* C36: in SITimeTaggerGatedCounter the measurement reference _counter is   *)
(* None exactly when the status is void: after every return of              *)
(* init_counter, start_counting, terminate_counting, get_status,            *)
(* get_count_array or close_counter a measurement is held if and only if    *)
(* the status is idle, in_progress or finished.                             *)
C36_CounterIffNotVoid == gcCounter <=> gcStatus \in {0, 1, 2}

(* A failed terminate_counting of a running measurement has closed the      *)
(* counter: no reference, status void.                                      *)
C36_Witness ==
    /\ gcRet.op = "terminate_counting" /\ gcRet.pre = 1 /\ gcRet.val = -1
    /\ ~gcCounter /\ gcStatus = -1


-----------------------------------------------------------------------------
(* C37: countdata keeps its capacity of _count_length columns from one      *)
(* startCount until the next, a save_spectrum_data call during the scan     *)
(* included, so no recorded sample is overwritten before _count_length      *)
(* samples have been recorded in that scan.                                 *)
C37_CapacityKept ==
    /\ Len(svScan.countdata) = CountLength
    /\ svScan.replaced # 0 => svScan.recorded > CountLength


-----------------------------------------------------------------------------
(* C39: in RNGLogic at most one loop_step invocation is pending or          *)
(* executing at any time, whatever the sequence of start_monitoring and     *)
(* stop_monitoring calls.                                                   *)
C39_SingleChain ==
    rngLoop.pending + (IF rngLoop.executing THEN 1 ELSE 0) <= 1


-----------------------------------------------------------------------------
(* C40: a write_sequence call that returns -1 has sent no                   *)
(* sequence-modifying command to the device and leaves _written_sequences   *)
(* unchanged.                                                               *)
C40_FailureSendsNothing ==
    wsCall.ret = -1 =>
        /\ wsCall.sent = <<>>
        /\ wsCall.written = wsCall.before

====
